---- MODULE Spec2Model ----
(***************************************************************************)
(* Subscription lifecycle, billing and delivery orchestration of the       *)
(* newspaper home-delivery service.                                        *)
(*                                                                         *)
(* The store (MongoDB collections) is the state.  Every handler of the     *)
(* customer controller (src/unnamed/part_003) and of the manager           *)
(* controller (src/controllers/manager.controller.js, the second set of    *)
(* exports, which is the one in effect) is one action.  Documents are      *)
(* records, collections are sequences in insertion order, and a document's *)
(* _id is its position in the sequence.  Dates are day numbers.            *)
(***************************************************************************)
EXTENDS Integers, Sequences, FiniteSets, TLC

(***************************************************************************)
(* Bounds of the model.                                                    *)
(***************************************************************************)
MaxSubs == 1
MaxReqs == 2
MaxBills == 2
MaxTime == 1
MaxQty == 1
MaxPayments == 1
MaxRoutes == 1
MaxSchedules == 2
MaxUsers == 1
MaxPubs == 1
MaxPayrolls == 2
MaxReminders == 2
DeliveryDays == 1
ReminderDays == 8
MaxPauses == 1

(***************************************************************************)
(* Values standing for "absent" (undefined / null in the store).           *)
(***************************************************************************)
NoId == 0
NoDate == -1
NoQty == 0
None == "none"

(***************************************************************************)
(* The reference data the handlers read but never write: users, areas,     *)
(* publications and addresses.                                             *)
(***************************************************************************)
Customers == {"c1", "c2"}
Managers == {"m1", "m2"}
Publications == {"p1", "p2"}
\* Address documents in natural (insertion) order.
AddressOrder == <<"d1", "d2", "d3", "d4">>
Addresses == {AddressOrder[i] : i \in 1..Len(AddressOrder)}

\* Area documents in natural (insertion) order, as findOne scans them.
AreaOrder == <<"a1", "a2">>
Areas == {AreaOrder[i] : i \in 1..Len(AreaOrder)}
AreaManagers == [a \in Areas |-> IF a = "a1" THEN {"m1"} ELSE {"m2"}]
AreaPublications == [a \in Areas |-> IF a = "a1" THEN {"p1", "p2"} ELSE {"p1"}]

PubPrice == [p \in Publications |-> IF p = "p1" THEN 50 ELSE 30]
PubActive == [p \in Publications |-> TRUE]

AddressDoc ==
  [d \in Addresses |->
     CASE d = "d1" -> [userId |-> "c1", areaId |-> "a1", isActive |-> TRUE]
       [] d = "d2" -> [userId |-> "c1", areaId |-> "a2", isActive |-> TRUE]
       [] d = "d3" -> [userId |-> "c2", areaId |-> "a1", isActive |-> TRUE]
       [] OTHER    -> [userId |-> "c2", areaId |-> "a2", isActive |-> FALSE]]

\* Enumerations of the schemas.
SubscriptionStatuses == {"Active", "Paused", "Cancelled", "Suspended"}
RequestTypes == {"New", "Update", "Cancel"}
RequestStatuses == {"Pending", "Approved", "Rejected"}
Placements == {"Door", "Mailbox"}

\* effectiveDate of a submitted request: 7 days after submission.
EffectiveDelay == 7

\* Inputs of the handlers.
DecisionInputs == {"Approved", "Rejected", "Pending", "Bogus"}
CommentInputs == {"noted"}
BillMonths == {12}
BillYears == {2024}

VARIABLES
  subscriptions,  \* Subscription collection
  requests,       \* SubscriptionChangeRequest collection
  bills,          \* Bill collection
  billItems,      \* BillItem collection
  payments,       \* Payment collection
  now,            \* the clock (new Date()), in days
  resp,           \* the last handler invoked and its response
  users,          \* User documents created by addDeliverer
  personnel,      \* DeliveryPersonnel collection
  addedPublications, \* Publication documents created by addPublication
  areaLinks,      \* per Area: the deliverers and publications pushed to it
  routes,         \* DeliveryRoute collection
  routeAddresses, \* RouteAddress collection
  schedules,      \* DeliverySchedule collection
  deliveryItems,  \* DeliveryItem collection
  delivererPayments, \* DelivererPayment collection
  reminders,      \* PaymentReminder collection
  pauses,         \* SubscriptionPause collection
  payCalls,       \* makePayment requests in progress, by request
  payrollCalls    \* processDelivererPayments requests in progress

\* The collections of subscriptions and billing.
coreStores == <<subscriptions, requests, bills, billItems, payments>>
\* The collections of the directory, of delivery and of reminders.
directoryStores == <<users, personnel, addedPublications, areaLinks>>
deliveryStores ==
  <<routes, routeAddresses, schedules, deliveryItems, delivererPayments>>
otherStores ==
  <<directoryStores, deliveryStores, reminders, pauses, payCalls,
    payrollCalls>>

vars == <<coreStores, now, resp, otherStores>>

NoResp == [op |-> "init", code |-> 0, who |-> None, id |-> NoId,
           decision |-> None, area |-> None]

\* op: the handler; code: its HTTP status; who: the authenticated manager
\* (req.user.id) of a decision; id: the :id the handler was invoked on;
\* decision: the status value the manager supplied.
Response(op, code, who, id, decision) ==
  [op |-> op, code |-> code, who |-> who, id |-> id, decision |-> decision,
   area |-> None]

\* The response of a handler that is invoked on an area (req.body.areaId).
AreaResponse(op, code, who, id, area) ==
  [op |-> op, code |-> code, who |-> who, id |-> id, decision |-> None,
   area |-> area]

(***************************************************************************)
(* The directory, delivery and reminder collections at start-up: the two   *)
(* registered deliverers and nothing else.                                 *)
(***************************************************************************)
\* DeliveryPersonnel documents; commissionRate is a percentage.
SeedPersonnel ==
  <<[userId |-> "u1", areasAssigned |-> {"a1"}, isActive |-> TRUE,
     commissionRate |-> 10],
    [userId |-> "u2", areasAssigned |-> {"a1", "a2"}, isActive |-> TRUE,
     commissionRate |-> 20]>>

NoLinks == [a \in Areas |-> [deliverers |-> <<>>, publications |-> <<>>]]

InitDirectory ==
  /\ users = <<>>
  /\ personnel = SeedPersonnel
  /\ addedPublications = <<>>
  /\ areaLinks = NoLinks

InitDelivery ==
  /\ routes = <<>>
  /\ routeAddresses = <<>>
  /\ schedules = <<>>
  /\ deliveryItems = <<>>
  /\ delivererPayments = <<>>

\* The two requests that can be in progress at once; at start-up none is.
Calls == {1, 2}

InitOtherStores ==
  /\ InitDirectory /\ InitDelivery /\ reminders = <<>>
  /\ pauses = <<>>
  /\ payCalls = [k \in Calls |-> [stage |-> "idle"]]
  /\ payrollCalls = [k \in Calls |-> [stage |-> "idle"]]

(***************************************************************************)
(* Store look-ups.                                                         *)
(***************************************************************************)
\* findById / populate: a reference resolves iff the document is stored.
HasSub(subs, id) == id \in 1..Len(subs)
HasReq(reqs, id) == id \in 1..Len(reqs)
HasAddress(d) == d \in Addresses

\* FindArea without the managers filter of the query.
FindAreaAnyManager(cands, m) ==
  LET hits == {i \in 1..Len(AreaOrder) : AreaOrder[i] \in cands}
  IN IF hits = {} THEN None
     ELSE AreaOrder[CHOOSE i \in hits : \A j \in hits : i <= j]

\* Area.findOne({ _id: {$in cands}, managers: m }): the first area, in
\* natural order, that is a candidate and lists m as a manager.
FindArea(cands, m) ==
  LET hits == {i \in 1..Len(AreaOrder) :
                 AreaOrder[i] \in cands /\ m \in AreaManagers[AreaOrder[i]]}
  IN IF hits = {} THEN None
     ELSE AreaOrder[CHOOSE i \in hits : \A j \in hits : i <= j]

\* The model classes the manager controller binds from require('../models').
ManagerImports ==
  {"Area", "User", "DeliveryPersonnel", "Publication",
   "SubscriptionChangeRequest", "DeliverySchedule", "Bill", "BillItem",
   "Payment", "PaymentReminder", "DelivererPayment", "DeliveryRoute",
   "DeliverySummaryReport", "Subscription", "RouteAddress", "DeliveryItem"}

\* Address.findOne({ userId, areaId, isActive: true }): first match.
FindDefaultAddress(user, area) ==
  LET hits == {i \in 1..Len(AddressOrder) :
                 /\ AddressDoc[AddressOrder[i]].userId = user
                 /\ AddressDoc[AddressOrder[i]].areaId = area
                 /\ AddressDoc[AddressOrder[i]].isActive}
  IN IF hits = {} THEN None
     ELSE AddressOrder[CHOOSE i \in hits : \A j \in hits : i <= j]

(***************************************************************************)
(* Customer submissions (customer controller).                             *)
(***************************************************************************)
\* The Subscription document createSubscription stores.
NewSubscriptionDoc(c, p, q, d, pl) ==
  [userId |-> c, publicationId |-> p, quantity |-> q,
   startDate |-> now, endDate |-> NoDate, status |-> "Active",
   addressId |-> d, areaId |-> AddressDoc[d].areaId, placement |-> pl]

\* The change request createSubscription stores for subscription s.
NewRequestDoc(c, s, p, q, d, pl) ==
  [userId |-> c, requestType |-> "New", subscriptionId |-> s,
   publicationId |-> p, newQuantity |-> q, newAddressId |-> d,
   placement |-> pl, status |-> "Pending",
   effectiveDate |-> now + EffectiveDelay, comments |-> None,
   processedBy |-> None, processedDate |-> NoDate]

\* The requestType updateSubscription writes into its change request.
ModifyRequestType == "Modify"

\* The change request updateSubscription builds for subscription s.
ModifyRequestDoc(c, s, q, d) ==
  [userId |-> c, requestType |-> ModifyRequestType, subscriptionId |-> s,
   publicationId |-> None, newQuantity |-> q, newAddressId |-> d,
   placement |-> None, status |-> "Pending",
   effectiveDate |-> now + EffectiveDelay, comments |-> None,
   processedBy |-> None, processedDate |-> NoDate]

\* CancelRequestDoc stored as already approved.
CancelRequestDocApproved(c, s) ==
  [userId |-> c, requestType |-> "Cancel", subscriptionId |-> s,
   publicationId |-> None, newQuantity |-> NoQty, newAddressId |-> None,
   placement |-> None, status |-> "Approved",
   effectiveDate |-> now + EffectiveDelay, comments |-> None,
   processedBy |-> None, processedDate |-> NoDate]

\* The change request cancelSubscription stores for subscription s.
CancelRequestDoc(c, s) ==
  [userId |-> c, requestType |-> "Cancel", subscriptionId |-> s,
   publicationId |-> None, newQuantity |-> NoQty, newAddressId |-> None,
   placement |-> None, status |-> "Pending",
   effectiveDate |-> now + EffectiveDelay, comments |-> None,
   processedBy |-> None, processedDate |-> NoDate]

\* Schema validation run by SubscriptionChangeRequest.save().
ValidRequest(r) ==
  /\ r.requestType \in RequestTypes
  /\ r.status \in RequestStatuses
  /\ r.effectiveDate # NoDate
  /\ r.userId # None

\* Schema validation run by Subscription.save().
ValidSubscription(s) ==
  /\ s.status \in SubscriptionStatuses
  /\ s.startDate # NoDate
  /\ s.userId # None
  /\ s.publicationId # None
  /\ s.addressId # None

\* POST /subscriptions.  fault names the write that the store rejects.
CreateSubscription(c, p, q, d, pl, fault) ==
  LET code == IF q <= 0 THEN 400
              ELSE IF pl = None THEN 400
              ELSE IF ~(p \in Publications /\ PubActive[p]) THEN 404
              ELSE IF ~(HasAddress(d) /\ AddressDoc[d].userId = c
                        /\ AddressDoc[d].isActive) THEN 404
              ELSE IF fault # None THEN 500
              ELSE 201
      sub == NewSubscriptionDoc(c, p, q, d, pl)
      sid == Len(subscriptions) + 1
      rq == NewRequestDoc(c, sid, p, q, d, pl)
      subStored == code = 201 \/ (code = 500 /\ fault = "req")
      reqStored == code = 201
  IN /\ Len(subscriptions) < MaxSubs
     /\ Len(requests) < MaxReqs
     /\ subscriptions' = IF subStored /\ ValidSubscription(sub)
                         THEN Append(subscriptions, sub) ELSE subscriptions
     /\ requests' = IF reqStored /\ ValidRequest(rq)
                    THEN Append(requests, rq) ELSE requests
     /\ resp' = Response("createSubscription", code, None, sid, None)
     /\ UNCHANGED <<bills, billItems, payments, now>>
     /\ UNCHANGED otherStores

\* PUT /subscriptions/:id.
UpdateSubscription(c, id, q, d, fault) ==
  LET found == /\ HasSub(subscriptions, id)
               /\ subscriptions[id].userId = c
               /\ subscriptions[id].status = "Active"
      rq == ModifyRequestDoc(c, id, q, d)
      code == IF ~found THEN 404
              ELSE IF ~ValidRequest(rq) \/ fault # None THEN 500
              ELSE 200
  IN /\ Len(requests) < MaxReqs
     /\ requests' = IF code = 200 THEN Append(requests, rq) ELSE requests
     /\ resp' = Response("updateSubscription", code, None, id, None)
     /\ UNCHANGED <<subscriptions, bills, billItems, payments, now>>
     /\ UNCHANGED otherStores

\* DELETE /subscriptions/:id.
CancelSubscription(c, id, fault) ==
  LET found == HasSub(subscriptions, id) /\ subscriptions[id].userId = c
      rq == CancelRequestDoc(c, id)
      code == IF ~found THEN 404
              ELSE IF subscriptions[id].status = "Cancelled" THEN 400
              ELSE IF ~ValidRequest(rq) \/ fault # None THEN 500
              ELSE 200
  IN /\ Len(requests) < MaxReqs
     /\ requests' = IF code = 200 THEN Append(requests, rq) ELSE requests
     /\ resp' = Response("cancelSubscription", code, None, id, None)
     /\ UNCHANGED <<subscriptions, bills, billItems, payments, now>>
     /\ UNCHANGED otherStores

\* new SubscriptionPause({...})
PauseDoc(id) == [subscriptionId |-> id]

\* POST /pause: an owned Active subscription becomes Paused at once.
\* pauseRequest.save() and subscription.save() are two independent writes;
\* fault names the one that the store rejects ("pause" also stands for a
\* body whose dates do not validate).
RequestPause(c, id, fault) ==
  LET found == /\ HasSub(subscriptions, id)
               /\ subscriptions[id].userId = c
               /\ subscriptions[id].status = "Active"
      code == IF ~found THEN 404 ELSE IF fault # None THEN 500 ELSE 200
  IN /\ Len(pauses) < MaxPauses
     /\ pauses' = IF found /\ fault # "pause"
                  THEN Append(pauses, PauseDoc(id)) ELSE pauses
     /\ subscriptions' = IF code = 200
                         THEN [subscriptions EXCEPT ![id].status = "Paused"]
                         ELSE subscriptions
     /\ resp' = Response("requestPause", code, None, id, None)
     /\ UNCHANGED <<requests, bills, billItems, payments, now>>
     /\ UNCHANGED <<directoryStores, deliveryStores, reminders, payCalls,
                    payrollCalls>>

(***************************************************************************)
(* handleSubscriptionRequest (PUT /subscription-requests/:id).             *)
(***************************************************************************)
\* The area ids the authorization query matches on: for a New request any
\* area carrying the publication, the new address's area or the
\* subscription's area; otherwise only the subscription's area.  A
\* reference that does not resolve (populate gives null) contributes none.
CandidateAreas(req, subs) ==
  LET subArea == IF HasSub(subs, req.subscriptionId)
                 THEN {subs[req.subscriptionId].areaId} ELSE {}
      adrArea == IF HasAddress(req.newAddressId)
                 THEN {AddressDoc[req.newAddressId].areaId} ELSE {}
      pubArea == {a \in Areas : req.publicationId \in AreaPublications[a]}
  IN IF req.requestType = "New" THEN pubArea \cup adrArea \cup subArea
     ELSE subArea

\* The edits every decision makes to the loaded request document.
DecidedRequest(req, m, status, comments) ==
  [req EXCEPT !.status = status, !.processedBy = m,
              !.processedDate = now, !.comments = comments]

\* IsApproved testing for "not Pending" instead.
IsApprovedUnlessPending(status) == status # "Pending"

\* if (status === 'Approved')
IsApproved(status) == status = "Approved"

\* Activate without the startDate assignment.
ActivateKeepingStartDate(sub, req) == [sub EXCEPT !.status = "Active"]

\* subscription.status = 'Active'; subscription.startDate = effectiveDate
Activate(sub, req) ==
  [sub EXCEPT !.status = "Active", !.startDate = req.effectiveDate]

\* case 'New'.  Result: response code, the subscriptions and the request as
\* written inside the transaction, and whether a subscription write ran.
ApproveNew(req, area, subs) ==
  LET supplied == HasAddress(req.newAddressId)
      default == FindDefaultAddress(req.userId, area)
      addressId == IF supplied THEN req.newAddressId ELSE default
      req1 == IF supplied THEN req ELSE [req EXCEPT !.newAddressId = default]
      sid == req.subscriptionId
      \* The document built when the request carries no subscription.
      fresh == [userId |-> req.userId, publicationId |-> req.publicationId,
                quantity |-> IF req.newQuantity # NoQty
                             THEN req.newQuantity ELSE 1,
                startDate |-> NoDate, endDate |-> NoDate,
                status |-> "Pending", addressId |-> addressId,
                areaId |-> IF HasAddress(addressId)
                           THEN AddressDoc[addressId].areaId ELSE area,
                placement |-> req.placement]
  IN IF ~supplied /\ "Address" \notin ManagerImports
     \* Address is not bound in this module: evaluating it throws a
     \* ReferenceError, which the catch block answers with 500.
     THEN [code |-> 500, subs |-> subs, req |-> req, wrote |-> FALSE]
     ELSE IF addressId = None
     THEN [code |-> 400, subs |-> subs, req |-> req, wrote |-> FALSE]
     ELSE IF HasSub(subs, sid)
     THEN [code |-> 200,
           subs |-> [subs EXCEPT ![sid] = Activate(subs[sid], req)],
           req |-> req1, wrote |-> TRUE]
     ELSE IF ~ValidSubscription(fresh)
     THEN [code |-> 500, subs |-> subs, req |-> req, wrote |-> FALSE]
     ELSE [code |-> 200,
           subs |-> Append(subs, Activate(fresh, req)),
           req |-> [req1 EXCEPT !.subscriptionId = Len(subs) + 1],
           wrote |-> TRUE]

\* ModifiedSubscription without the addressId assignment.
ModifiedSubscriptionKeepingAddress(old, req) ==
  [old EXCEPT
     !.quantity = IF req.newQuantity # NoQty
                  THEN req.newQuantity ELSE old.quantity,
     !.placement = req.placement]

\* The edits of case 'Update' to the loaded subscription.  A quantity of 0
\* and a missing one are both falsy; an address that does not resolve
\* populates to null.  deliveryPreferences is a nested path of the request
\* schema, which Mongoose always materialises as an object, so its guard is
\* always taken and the subscription's preferences are overwritten with the
\* request's (absent ones included).
ModifiedSubscription(old, req) ==
  [old EXCEPT
     !.quantity = IF req.newQuantity # NoQty
                  THEN req.newQuantity ELSE old.quantity,
     !.addressId = IF HasAddress(req.newAddressId)
                   THEN req.newAddressId ELSE old.addressId,
     !.placement = req.placement]

\* case 'Update'.
ApproveUpdate(req, subs) ==
  LET sid == req.subscriptionId
  IN IF ~HasSub(subs, sid)
     THEN [code |-> 404, subs |-> subs, req |-> req, wrote |-> FALSE]
     ELSE [code |-> 200,
           subs |-> [subs EXCEPT ![sid] = ModifiedSubscription(subs[sid], req)],
           req |-> req, wrote |-> TRUE]

\* case 'Cancel': findByIdAndUpdate, a no-op when nothing matches.
ApproveCancel(req, subs) ==
  LET sid == req.subscriptionId
  IN [code |-> 200,
      subs |-> IF HasSub(subs, sid)
               THEN [subs EXCEPT ![sid].status = "Cancelled",
                                 ![sid].endDate = req.effectiveDate]
               ELSE subs,
      req |-> req, wrote |-> TRUE]

\* switch (request.requestType)
ApplyApproval(req, area, subs) ==
  CASE req.requestType = "New" -> ApproveNew(req, area, subs)
    [] req.requestType = "Update" -> ApproveUpdate(req, subs)
    [] req.requestType = "Cancel" -> ApproveCancel(req, subs)
    [] OTHER -> [code |-> 200, subs |-> subs, req |-> req, wrote |-> FALSE]

\* Commit for writes issued outside the session: nothing is rolled back.
CommitWithoutSession(before, written, code) == written

\* Commit keeping the writes of a transaction that threw.
CommitIgnoringAbort(before, written, code) ==
  IF code \in {200, 500} THEN written ELSE before

\* session.commitTransaction / abortTransaction: what the store holds after
\* the handler, given what it held before and what the transaction wrote.
Commit(before, written, code) == IF code = 200 THEN written ELSE before

\* The handler's transaction for an existing request and an authorized
\* manager.  fault names the write (or the commit) that the store rejects.
DecideTxn(m, id, status, comments, fault, area) ==
  LET decided == DecidedRequest(requests[id], m, status, comments)
      step == IF IsApproved(status)
              THEN ApplyApproval(decided, area, subscriptions)
              ELSE [code |-> 200, subs |-> subscriptions, req |-> decided,
                    wrote |-> FALSE]
      reqs1 == [requests EXCEPT ![id] = step.req]
  IN IF step.code # 200
     THEN [code |-> step.code, subs |-> step.subs, reqs |-> requests,
           fault |-> None]
     ELSE IF fault = "sub" /\ step.wrote
     THEN [code |-> 500, subs |-> subscriptions, reqs |-> requests,
           fault |-> fault]
     ELSE IF ~ValidRequest(step.req)
     THEN [code |-> 500, subs |-> step.subs, reqs |-> requests,
           fault |-> None]
     ELSE IF fault = "req"
     THEN [code |-> 500, subs |-> step.subs, reqs |-> requests,
           fault |-> fault]
     ELSE IF fault = "commit"
     THEN [code |-> 500, subs |-> step.subs, reqs |-> reqs1,
           fault |-> fault]
     ELSE [code |-> 200, subs |-> step.subs, reqs |-> reqs1, fault |-> None]

HandleSubscriptionRequest(m, id, status, comments, fault) ==
  LET found == HasReq(requests, id)
      area == IF found
              THEN FindArea(CandidateAreas(requests[id], subscriptions), m)
              ELSE None
      txn == DecideTxn(m, id, status, comments, fault, area)
  IN /\ IF ~found
        THEN /\ resp' = Response("decide", 404, m, id, status)
             /\ UNCHANGED <<subscriptions, requests>>
        ELSE IF area = None
        THEN /\ resp' = Response("decide", 403, m, id, status)
             /\ UNCHANGED <<subscriptions, requests>>
        ELSE /\ subscriptions' = Commit(subscriptions, txn.subs, txn.code)
             /\ requests' = Commit(requests, txn.reqs, txn.code)
             /\ resp' = Response("decide", txn.code, m, id, status)
     /\ UNCHANGED <<bills, billItems, payments, now>>
     /\ UNCHANGED otherStores

(***************************************************************************)
(* generateBills (POST /bills/generate).                                   *)
(***************************************************************************)
\* new Date(year, monthIndex, day) as a calendar date; monthIndex is
\* 0-based and an index of 12 rolls over into January of the next year,
\* day 0 is the last day of the month before.
IsLeap(y) == (y % 4 = 0 /\ y % 100 # 0) \/ y % 400 = 0

DaysInMonth(y, m) ==
  IF m = 2 THEN (IF IsLeap(y) THEN 29 ELSE 28)
  ELSE IF m \in {4, 6, 9, 11} THEN 30 ELSE 31

\* JsDate reading monthIndex as a month number and day as a day number.
JsDateOneBased(year, monthIndex, day) ==
  [year |-> year, month |-> monthIndex, day |-> day]

JsDate(year, monthIndex, day) ==
  LET y == year + (monthIndex \div 12)
      m == (monthIndex % 12) + 1
  IN IF day >= 1 THEN [year |-> y, month |-> m, day |-> day]
     ELSE IF m = 1 THEN [year |-> y - 1, month |-> 12, day |-> 31 + day]
     ELSE [year |-> y, month |-> m - 1, day |-> DaysInMonth(y, m - 1) + day]

\* Subscription.find({ areaId: {$in: areaIds}, status: 'Active' }), as the
\* ids of the matching documents in natural order.
ActiveSubscriptionIds(subs, areaIds) ==
  SelectSeq([i \in 1..Len(subs) |-> i],
            LAMBDA i : subs[i].areaId \in areaIds /\ subs[i].status = "Active")

\* BillKey grouping by area alone.
BillKeyByArea(sub) == <<sub.areaId, sub.areaId>>

\* `${subscription.userId._id}-${subscription.areaId}`
BillKey(sub) == <<sub.userId, sub.areaId>>

\* The subscriptions of the run that open a bill: the first of each key.
BillOpeners(subs, ids) ==
  SelectSeq(ids, LAMBDA i :
     \A k \in 1..Len(ids) :
        (ids[k] < i) => BillKey(subs[ids[k]]) # BillKey(subs[i]))

RECURSIVE SumAmounts(_, _, _)
SumAmounts(subs, ids, key) ==
  IF ids = <<>> THEN 0
  ELSE (IF BillKey(subs[Head(ids)]) = key
        THEN PubPrice[subs[Head(ids)].publicationId] * subs[Head(ids)].quantity
        ELSE 0) + SumAmounts(subs, Tail(ids), key)

\* The Bill document created for the group opened by subscription i.
BillDoc(subs, ids, i, month, year) ==
  [userId |-> subs[i].userId, areaId |-> subs[i].areaId,
   billMonth |-> month, billYear |-> year,
   totalAmount |-> SumAmounts(subs, ids, BillKey(subs[i])),
   outstandingAmount |-> SumAmounts(subs, ids, BillKey(subs[i])),
   dueDate |-> JsDate(year, month, 15), status |-> "Unpaid"]

\* BillItemDoc charging one copy whatever the quantity.
BillItemDocOneCopy(subs, i, billId, month, year) ==
  [billId |-> billId, publicationId |-> subs[i].publicationId,
   quantity |-> subs[i].quantity,
   unitPrice |-> PubPrice[subs[i].publicationId],
   totalPrice |-> PubPrice[subs[i].publicationId],
   from |-> JsDate(year, month - 1, 1), to |-> JsDate(year, month, 0),
   subscriptionId |-> i]

\* The BillItem document created for subscription i on bill billId.  The
\* field subscriptionId is not stored by the code: it records which
\* subscription the item was computed from.
BillItemDoc(subs, i, billId, month, year) ==
  [billId |-> billId, publicationId |-> subs[i].publicationId,
   quantity |-> subs[i].quantity,
   unitPrice |-> PubPrice[subs[i].publicationId],
   totalPrice |-> PubPrice[subs[i].publicationId] * subs[i].quantity,
   from |-> JsDate(year, month - 1, 1), to |-> JsDate(year, month, 0),
   subscriptionId |-> i]

RECURSIVE ItemsOfGroup(_, _, _, _, _, _)
ItemsOfGroup(subs, ids, key, billId, month, year) ==
  IF ids = <<>> THEN <<>>
  ELSE (IF BillKey(subs[Head(ids)]) = key
        THEN <<BillItemDoc(subs, Head(ids), billId, month, year)>>
        ELSE <<>>) \o ItemsOfGroup(subs, Tail(ids), key, billId, month, year)

\* allBillItems: the items of the first created bill, then of the second...
RECURSIVE AllBillItems(_, _, _, _, _, _, _)
AllBillItems(subs, ids, openers, k, base, month, year) ==
  IF k > Len(openers) THEN <<>>
  ELSE ItemsOfGroup(subs, ids, BillKey(subs[openers[k]]), base + k,
                    month, year)
       \o AllBillItems(subs, ids, openers, k + 1, base, month, year)

GenerateBills(m, month, year, fault) ==
  LET areaIds == {a \in Areas : m \in AreaManagers[a]}
      ids == ActiveSubscriptionIds(subscriptions, areaIds)
      openers == BillOpeners(subscriptions, ids)
      newBills == [k \in 1..Len(openers) |->
                     BillDoc(subscriptions, ids, openers[k], month, year)]
      newItems == AllBillItems(subscriptions, ids, openers, 1, Len(bills),
                               month, year)
      \* What the transaction has written when it ends: Bill.create, then
      \* BillItem.create, then the commit; a failing step throws.
      wroteBills == IF fault = "bill" THEN bills ELSE bills \o newBills
      wroteItems == IF fault \in {"bill", "item"} THEN billItems
                    ELSE billItems \o newItems
      code == IF Len(openers) = 0 THEN 200
              ELSE IF fault # None THEN 500 ELSE 201
  IN /\ Len(bills) + Len(openers) <= MaxBills
     /\ bills' = IF Len(openers) = 0 THEN bills
                 ELSE Commit(bills, wroteBills, IF code = 201 THEN 200 ELSE code)
     /\ billItems' = IF Len(openers) = 0 THEN billItems
                     ELSE Commit(billItems, wroteItems,
                                 IF code = 201 THEN 200 ELSE code)
     /\ resp' = Response("generateBills", code, m, NoId, None)
     /\ UNCHANGED <<subscriptions, requests, payments, now>>
     /\ UNCHANGED otherStores

(***************************************************************************)
(* makePayment (POST /payments, customer controller).                      *)
(***************************************************************************)
PaymentMethods == {"Cash", "Cheque", "Online", "UPI", "Card"}
BillStatuses == {"Unpaid", "Partially Paid", "Paid", "Overdue"}

\* Math.max(0, x)
Max0(x) == IF x > 0 THEN x ELSE 0

\* NewOutstanding without the clamp at zero.
NewOutstandingUnclamped(o, a) == o - a

\* Math.max(0, bill.outstandingAmount - amount)
NewOutstanding(o, a) == Max0(o - a)

\* bill.outstandingAmount === 0 ? 'Paid' : 'Partially Paid'
PaidStatus(o) == IF o = 0 THEN "Paid" ELSE "Partially Paid"

\* new Payment({...})
PaymentDoc(c, billId, amount, method) ==
  [billId |-> billId, userId |-> c, amount |-> amount,
   paymentMethod |-> method, status |-> "Completed"]

\* Schema validation of payment.save(): the amount is any number.
ValidPayment(p) == p.paymentMethod \in PaymentMethods

\* The bill after the payment was applied.
PaidBill(bill, amount) ==
  [bill EXCEPT !.outstandingAmount = NewOutstanding(bill.outstandingAmount,
                                                    amount),
               !.status = PaidStatus(NewOutstanding(bill.outstandingAmount,
                                                    amount))]

\* FindOwnBill without the userId condition.
FindOwnBillAnyUser(bls, billId, c) == billId \in 1..Len(bls)

\* Bill.findOne({ _id: billId, userId: req.user.id })
FindOwnBill(bls, billId, c) ==
  billId \in 1..Len(bls) /\ bls[billId].userId = c

\* The handler runs without a transaction: payment.save(), bill.save() and
\* activity.save() are three independent writes; fault names the one that
\* the store rejects.
MakePayment(c, billId, amount, method, fault) ==
  LET found == FindOwnBill(bills, billId, c)
      payment == PaymentDoc(c, billId, amount, method)
  IN /\ Len(payments) < MaxPayments
     /\ IF ~found
        THEN /\ resp' = Response("makePayment", 404, c, billId, None)
             /\ UNCHANGED <<bills, payments>>
        ELSE IF ~ValidPayment(payment) \/ fault = "payment"
        THEN /\ resp' = Response("makePayment", 500, c, billId, None)
             /\ UNCHANGED <<bills, payments>>
        ELSE IF fault = "bill"
        THEN /\ payments' = Append(payments, payment)
             /\ resp' = Response("makePayment", 500, c, billId, None)
             /\ UNCHANGED bills
        ELSE /\ payments' = Append(payments, payment)
             /\ bills' = [bills EXCEPT ![billId] = PaidBill(bills[billId],
                                                            amount)]
             /\ resp' = Response("makePayment",
                                 IF fault = "activity" THEN 500 ELSE 201,
                                 c, billId, None)
     /\ UNCHANGED <<subscriptions, requests, billItems, now>>
     /\ UNCHANGED otherStores

(***************************************************************************)
(* makePayment request by request: the handler gives up control at each of *)
(* its awaits (Bill.findOne, payment.save, bill.save), and a second        *)
(* request can run in between.  payCalls[k] holds what request k has in    *)
(* memory: the bill document it loaded.                                    *)
(***************************************************************************)
\* The request has answered.
DoneCall(code, c, billId, amount) ==
  [stage |-> "done", code |-> code, who |-> c, billId |-> billId,
   amount |-> amount]

\* bill.save() sends the paths whose value the handler changed in its
\* loaded copy; a path assigned the value it already had is not sent.
SavedBill(stored, loaded, amount) ==
  LET o == NewOutstanding(loaded.outstandingAmount, amount)
  IN [stored EXCEPT
        !.outstandingAmount = IF o # loaded.outstandingAmount
                              THEN o ELSE stored.outstandingAmount,
        !.status = IF PaidStatus(o) # loaded.status
                   THEN PaidStatus(o) ELSE stored.status]

\* Bill.findOne({ _id: billId, userId: req.user.id }) of request k.
BeginPayment(k, c, billId, amount, method) ==
  /\ payCalls[k].stage = "idle"
  /\ IF ~FindOwnBill(bills, billId, c)
     THEN /\ payCalls' = [payCalls EXCEPT
                            ![k] = DoneCall(404, c, billId, amount)]
          /\ resp' = Response("makePayment", 404, c, billId, None)
     ELSE /\ payCalls' = [payCalls EXCEPT
                            ![k] = [stage |-> "found", who |-> c,
                                    billId |-> billId, amount |-> amount,
                                    method |-> method,
                                    loaded |-> bills[billId]]]
          /\ UNCHANGED resp
  /\ UNCHANGED <<coreStores, now, directoryStores, deliveryStores, reminders,
                 pauses, payrollCalls>>

\* payment.save() of request k.  fault "payment": the store rejects the
\* document (receiptNumber is unique and derived from the clock).
SavePayment(k, fault) ==
  LET call == payCalls[k]
      payment == PaymentDoc(call.who, call.billId, call.amount, call.method)
  IN /\ call.stage = "found"
     /\ IF ~ValidPayment(payment) \/ fault = "payment"
        THEN /\ payCalls' = [payCalls EXCEPT
                               ![k] = DoneCall(500, call.who, call.billId,
                                               call.amount)]
             /\ resp' = Response("makePayment", 500, call.who, call.billId,
                                 None)
             /\ UNCHANGED payments
        ELSE /\ payments' = Append(payments, payment)
             /\ payCalls' = [payCalls EXCEPT ![k].stage = "saved"]
             /\ UNCHANGED resp
     /\ UNCHANGED <<subscriptions, requests, bills, billItems, now>>
     /\ UNCHANGED <<directoryStores, deliveryStores, reminders, pauses,
                    payrollCalls>>

\* bill.save(), activity.save() and the response of request k.
SaveBill(k, fault) ==
  LET call == payCalls[k]
      code == IF fault # None THEN 500 ELSE 201
  IN /\ call.stage = "saved"
     /\ bills' = IF fault = "bill" THEN bills
                 ELSE [bills EXCEPT
                         ![call.billId] = SavedBill(bills[call.billId],
                                                    call.loaded, call.amount)]
     /\ payCalls' = [payCalls EXCEPT
                       ![k] = DoneCall(code, call.who, call.billId,
                                       call.amount)]
     /\ resp' = Response("makePayment", code, call.who, call.billId, None)
     /\ UNCHANGED <<subscriptions, requests, billItems, payments, now>>
     /\ UNCHANGED <<directoryStores, deliveryStores, reminders, pauses,
                    payrollCalls>>

(***************************************************************************)
(* Manager mutations guarded by the area check: createRoute,               *)
(* createSchedule, addDeliverer, addPublication.                           *)
(***************************************************************************)
NoSeq == 0
RouteCriteria == {"Distance", "Time", "Custom"}
PublicationTypes == {"Daily", "Weekly", "Monthly", "Quarterly"}
ScheduleStatuses == {"Pending", "In Progress", "Completed"}
ItemStatuses == {"Pending", "Delivered", "Failed", "Skipped"}

\* A Date field that is not set; a set one is a day and whether the time
\* of day is after 00:00:00.000.
NoTime == [day |-> NoDate, late |-> FALSE]

\* ManagesArea without the managers filter of the query.
ManagesAreaAnyManager(m, areaId) == areaId \in Areas

\* Area.findOne({ _id: areaId, managers: req.user.id })
ManagesArea(m, areaId) == areaId \in Areas /\ m \in AreaManagers[areaId]

\* DeliveryPersonnel.findOne({ _id, areasAssigned: areaId, isActive: true })
FindDeliverer(pers, id, areaId) ==
  /\ id \in 1..Len(pers)
  /\ areaId \in pers[id].areasAssigned
  /\ pers[id].isActive

\* FindRoute without the personnelId condition.
FindRouteAnyPersonnel(rts, id, areaId, personnelId) ==
  /\ id \in 1..Len(rts)
  /\ rts[id].areaId = areaId
  /\ rts[id].isActive

\* DeliveryRoute.findOne({ _id, areaId, personnelId, isActive: true })
FindRoute(rts, id, areaId, personnelId) ==
  /\ id \in 1..Len(rts)
  /\ rts[id].areaId = areaId
  /\ rts[id].personnelId = personnelId
  /\ rts[id].isActive

\* The RouteAddress rows for caller-supplied stops: the stops whose address
\* has an Active subscription in the area, numbered by the supplied
\* sequenceNumber or else by their position among the kept stops.
SuppliedRouteAddresses(subs, areaId, stops, routeId) ==
  LET ids == ActiveSubscriptionIds(subs, {areaId})
      valid == {subs[ids[k]].addressId : k \in 1..Len(ids)}
      kept == SelectSeq(stops, LAMBDA st : st.addressId \in valid)
  IN [k \in 1..Len(kept) |->
        [routeId |-> routeId, addressId |-> kept[k].addressId,
         sequenceNumber |-> IF kept[k].sequenceNumber # NoSeq
                            THEN kept[k].sequenceNumber ELSE k]]

\* The RouteAddress rows when no stops are supplied: one per Active
\* subscription of the area, numbered from 1.
AutoRouteAddresses(subs, areaId, routeId) ==
  LET ids == ActiveSubscriptionIds(subs, {areaId})
  IN [k \in 1..Len(ids) |->
        [routeId |-> routeId, addressId |-> subs[ids[k]].addressId,
         sequenceNumber |-> k]]

\* createRoute runs without a transaction: DeliveryRoute.create and
\* RouteAddress.create are independent writes.
CreateRoute(m, personnelId, routeName, areaId, criteria, stops, fault) ==
  LET routeId == Len(routes) + 1
      route == [personnelId |-> personnelId, routeName |-> routeName,
                areaId |-> areaId, optimizationCriteria |-> criteria,
                isActive |-> TRUE]
      rows == IF Len(stops) > 0
              THEN SuppliedRouteAddresses(subscriptions, areaId, stops, routeId)
              ELSE AutoRouteAddresses(subscriptions, areaId, routeId)
  IN /\ Len(routes) < MaxRoutes
     /\ IF personnelId = NoId \/ routeName = None \/ areaId = None
        THEN /\ resp' = AreaResponse("createRoute", 400, m, personnelId, areaId)
             /\ UNCHANGED <<routes, routeAddresses>>
        ELSE IF ~ManagesArea(m, areaId)
        THEN /\ resp' = AreaResponse("createRoute", 403, m, personnelId, areaId)
             /\ UNCHANGED <<routes, routeAddresses>>
        ELSE IF ~FindDeliverer(personnel, personnelId, areaId)
        THEN /\ resp' = AreaResponse("createRoute", 400, m, personnelId, areaId)
             /\ UNCHANGED <<routes, routeAddresses>>
        ELSE IF criteria \notin RouteCriteria \/ fault = "route"
        THEN /\ resp' = AreaResponse("createRoute", 500, m, personnelId, areaId)
             /\ UNCHANGED <<routes, routeAddresses>>
        ELSE IF Len(rows) > 0 /\ fault = "routeAddress"
        THEN /\ routes' = Append(routes, route)
             /\ resp' = AreaResponse("createRoute", 500, m, personnelId, areaId)
             /\ UNCHANGED routeAddresses
        ELSE /\ routes' = Append(routes, route)
             /\ routeAddresses' = routeAddresses \o rows
             /\ resp' = AreaResponse("createRoute", 201, m, personnelId, areaId)
     /\ UNCHANGED <<coreStores, now, directoryStores, reminders, pauses,
                  payCalls, payrollCalls>>
     /\ UNCHANGED <<schedules, deliveryItems, delivererPayments>>

\* DeliveryItemDoc with the schema's default quantity.
DeliveryItemDocOneCopy(subs, i, scheduleId) ==
  [scheduleId |-> scheduleId, subscriptionId |-> i,
   addressId |-> subs[i].addressId, publicationId |-> subs[i].publicationId,
   quantity |-> 1, status |-> "Pending", deliveryTime |-> NoTime,
   photoProof |-> None]

\* The DeliveryItem created for subscription i on schedule scheduleId.
DeliveryItemDoc(subs, i, scheduleId) ==
  [scheduleId |-> scheduleId, subscriptionId |-> i,
   addressId |-> subs[i].addressId, publicationId |-> subs[i].publicationId,
   quantity |-> IF subs[i].quantity # 0 THEN subs[i].quantity ELSE 1,
   status |-> "Pending", deliveryTime |-> NoTime, photoProof |-> None]

\* createSchedule: the schedule row and its items are written in one
\* transaction; fault names the write (or the commit) the store rejects.
CreateSchedule(m, personnelId, date, areaId, routeId, fault) ==
  LET scheduleId == Len(schedules) + 1
      schedule == [personnelId |-> personnelId, date |-> date,
                   areaId |-> areaId, routeId |-> routeId,
                   status |-> "Pending"]
      ids == ActiveSubscriptionIds(subscriptions, {areaId})
      items == [k \in 1..Len(ids) |->
                  DeliveryItemDoc(subscriptions, ids[k], scheduleId)]
      wroteSchedules == IF fault = "schedule" THEN schedules
                        ELSE Append(schedules, schedule)
      wroteItems == IF fault \in {"schedule", "item"} THEN deliveryItems
                    ELSE deliveryItems \o items
      code == IF fault = "schedule" \/ fault = "commit" THEN 500
              ELSE IF fault = "item" /\ Len(items) > 0 THEN 500
              ELSE 201
  IN /\ Len(schedules) < MaxSchedules
     /\ IF personnelId = NoId \/ date = NoDate \/ areaId = None
           \/ routeId = NoId
        THEN /\ resp' = AreaResponse("createSchedule", 400, m, personnelId,
                                     areaId)
             /\ UNCHANGED <<schedules, deliveryItems>>
        ELSE IF ~ManagesArea(m, areaId)
        THEN /\ resp' = AreaResponse("createSchedule", 403, m, personnelId,
                                     areaId)
             /\ UNCHANGED <<schedules, deliveryItems>>
        ELSE IF \/ ~FindDeliverer(personnel, personnelId, areaId)
                \/ ~FindRoute(routes, routeId, areaId, personnelId)
        THEN /\ resp' = AreaResponse("createSchedule", 400, m, personnelId,
                                     areaId)
             /\ UNCHANGED <<schedules, deliveryItems>>
        ELSE /\ schedules' = Commit(schedules, wroteSchedules,
                                    IF code = 201 THEN 200 ELSE code)
             /\ deliveryItems' = Commit(deliveryItems, wroteItems,
                                        IF code = 201 THEN 200 ELSE code)
             /\ resp' = AreaResponse("createSchedule", code, m, personnelId,
                                     areaId)
     /\ UNCHANGED <<coreStores, now, directoryStores, reminders, pauses,
                  payCalls, payrollCalls>>
     /\ UNCHANGED <<routes, routeAddresses, delivererPayments>>

\* addDeliverer: user.save(), deliverer.save() and area.save() are three
\* independent writes.  named: firstName and lastName are supplied.
AddDeliverer(m, email, named, rate, areaId, fault) ==
  LET user == [username |-> email, email |-> email, role |-> "Deliverer",
               areas |-> {areaId}, isActive |-> TRUE]
      validUser == named /\ \A k \in 1..Len(users) : users[k].email # email
      deliverer == [userId |-> email, areasAssigned |-> {areaId},
                    isActive |-> TRUE, commissionRate |-> rate]
      linked == [areaLinks EXCEPT ![areaId].deliverers =
                    Append(@, Len(personnel) + 1)]
  IN /\ Len(users) < MaxUsers
     /\ IF areaId = None \/ email = None
        THEN /\ resp' = AreaResponse("addDeliverer", 400, m, NoId, areaId)
             /\ UNCHANGED <<users, personnel, areaLinks>>
        ELSE IF ~ManagesArea(m, areaId)
        THEN /\ resp' = AreaResponse("addDeliverer", 403, m, NoId, areaId)
             /\ UNCHANGED <<users, personnel, areaLinks>>
        ELSE IF ~validUser \/ fault = "user"
        THEN /\ resp' = AreaResponse("addDeliverer", 500, m, NoId, areaId)
             /\ UNCHANGED <<users, personnel, areaLinks>>
        ELSE IF fault = "personnel"
        THEN /\ users' = Append(users, user)
             /\ resp' = AreaResponse("addDeliverer", 500, m, NoId, areaId)
             /\ UNCHANGED <<personnel, areaLinks>>
        ELSE IF fault = "area"
        THEN /\ users' = Append(users, user)
             /\ personnel' = Append(personnel, deliverer)
             /\ resp' = AreaResponse("addDeliverer", 500, m, NoId, areaId)
             /\ UNCHANGED areaLinks
        ELSE /\ users' = Append(users, user)
             /\ personnel' = Append(personnel, deliverer)
             /\ areaLinks' = linked
             /\ resp' = AreaResponse("addDeliverer", 201, m, NoId, areaId)
     /\ UNCHANGED <<coreStores, now, deliveryStores, reminders, pauses,
                  payCalls, payrollCalls>>
     /\ UNCHANGED addedPublications

\* addPublication: a missing area throws, which the catch block answers
\* with 500; Publication.create and area.save() are independent writes.
AddPublication(m, areaId, pubType, price, fault) ==
  LET publication == [publicationType |-> pubType, price |-> price,
                      managerId |-> m, areas |-> {areaId}, isActive |-> TRUE]
      linked == [areaLinks EXCEPT ![areaId].publications =
                    Append(@, Len(addedPublications) + 1)]
  IN /\ Len(addedPublications) < MaxPubs
     /\ IF ~ManagesArea(m, areaId)
        THEN /\ resp' = AreaResponse("addPublication", 500, m, NoId, areaId)
             /\ UNCHANGED <<addedPublications, areaLinks>>
        ELSE IF pubType \notin PublicationTypes \/ fault = "publication"
        THEN /\ resp' = AreaResponse("addPublication", 500, m, NoId, areaId)
             /\ UNCHANGED <<addedPublications, areaLinks>>
        ELSE IF fault = "area"
        THEN /\ addedPublications' = Append(addedPublications, publication)
             /\ resp' = AreaResponse("addPublication", 500, m, NoId, areaId)
             /\ UNCHANGED areaLinks
        ELSE /\ addedPublications' = Append(addedPublications, publication)
             /\ areaLinks' = linked
             /\ resp' = AreaResponse("addPublication", 201, m, NoId, areaId)
     /\ UNCHANGED <<coreStores, now, deliveryStores, reminders, pauses,
                  payCalls, payrollCalls>>
     /\ UNCHANGED <<users, personnel>>

(***************************************************************************)
(* The calendar: day 0 of the clock is StartOfClock.                       *)
(***************************************************************************)
StartOfClock == [year |-> 2025, month |-> 1, day |-> 31]
BaseYear == 2024

RECURSIVE DaysBeforeMonth(_, _)
DaysBeforeMonth(y, m) ==
  IF m <= 1 THEN 0 ELSE DaysInMonth(y, m - 1) + DaysBeforeMonth(y, m - 1)

RECURSIVE DaysBeforeYear(_)
DaysBeforeYear(y) ==
  IF y <= BaseYear THEN 0
  ELSE (IF IsLeap(y - 1) THEN 366 ELSE 365) + DaysBeforeYear(y - 1)

\* The number of days from 1 January of BaseYear to the given date.
Ordinal(date) ==
  DaysBeforeYear(date.year) + DaysBeforeMonth(date.year, date.month)
  + date.day - 1

\* The day of the clock on which the given calendar date falls.
DayOf(date) == Ordinal(date) - Ordinal(StartOfClock)

(***************************************************************************)
(* updateDeliveryStatus (PUT /items/:id, deliverer controller).            *)
(***************************************************************************)
DeliveredStatuses == {"Delivered", "Failed", "Skipped"}

\* FindOwnSchedule without the personnelId condition.
FindOwnScheduleAnyPersonnel(scheds, item, dp) ==
  item.scheduleId \in 1..Len(scheds)

\* DeliverySchedule.findOne({ _id: item.scheduleId,
\*                            personnelId: req.user.deliveryPersonnel })
FindOwnSchedule(scheds, item, dp) ==
  /\ item.scheduleId \in 1..Len(scheds)
  /\ scheds[item.scheduleId].personnelId = dp

\* dp is req.user.deliveryPersonnel; late tells whether the call happens
\* after 00:00:00.000 of the current day.
UpdateDeliveryStatus(dp, id, status, late, fault) ==
  LET found == id \in 1..Len(deliveryItems)
      own == found /\ FindOwnSchedule(schedules, deliveryItems[id], dp)
  IN /\ IF status \notin DeliveredStatuses
        THEN /\ resp' = Response("updateDeliveryStatus", 400, None, id, status)
             /\ UNCHANGED deliveryItems
        ELSE IF ~found
        THEN /\ resp' = Response("updateDeliveryStatus", 404, None, id, status)
             /\ UNCHANGED deliveryItems
        ELSE IF ~own
        THEN /\ resp' = Response("updateDeliveryStatus", 403, None, id, status)
             /\ UNCHANGED deliveryItems
        ELSE IF fault = "item"
        THEN /\ resp' = Response("updateDeliveryStatus", 500, None, id, status)
             /\ UNCHANGED deliveryItems
        ELSE /\ deliveryItems' =
                  [deliveryItems EXCEPT ![id].status = status,
                                        ![id].deliveryTime =
                                           [day |-> now, late |-> late]]
             /\ resp' = Response("updateDeliveryStatus", 200, None, id, status)
     /\ UNCHANGED <<coreStores, now, directoryStores, reminders, pauses,
                  payCalls, payrollCalls>>
     /\ UNCHANGED <<routes, routeAddresses, schedules, delivererPayments>>

(***************************************************************************)
(* uploadDeliveryProof (POST /proof, deliverer controller).  photo: a file *)
(* came with the request (req.file?.path).                                 *)
(***************************************************************************)
UploadDeliveryProof(dp, id, photo, fault) ==
  LET found == id \in 1..Len(deliveryItems)
      own == found /\ FindOwnSchedule(schedules, deliveryItems[id], dp)
      code == IF ~photo THEN 400
              ELSE IF ~found THEN 404
              ELSE IF ~own THEN 403
              ELSE IF fault = "item" THEN 500
              ELSE 201
  IN /\ deliveryItems' = IF code = 201
                         THEN [deliveryItems EXCEPT ![id].photoProof = "photo"]
                         ELSE deliveryItems
     /\ resp' = Response("uploadDeliveryProof", code, None, id, None)
     /\ UNCHANGED <<coreStores, now, directoryStores, reminders, pauses,
                    payCalls, payrollCalls>>
     /\ UNCHANGED <<routes, routeAddresses, schedules, delivererPayments>>

(***************************************************************************)
(* processDelivererPayments (POST /deliverer-payments).                    *)
(***************************************************************************)
\* ExistingPayment finding nothing.
ExistingPaymentNever(pays, dp, month, year) == FALSE

\* DelivererPayment.findOne({ personnelId, paymentMonth, paymentYear })
ExistingPayment(pays, dp, month, year) ==
  \E k \in 1..Len(pays) :
     /\ pays[k].personnelId = dp
     /\ pays[k].paymentMonth = month
     /\ pays[k].paymentYear = year

\* deliveryTime: { $gte: startDate, $lte: endDate }, both bounds being
\* midnights.
InPeriod(t, month, year) ==
  LET first == DayOf(JsDate(year, month - 1, 1))
      last == DayOf(JsDate(year, month, 0))
  IN /\ t.day # NoDate
     /\ first <= t.day
     /\ (t.day < last \/ (t.day = last /\ ~t.late))

\* DeliveryItem.find({ 'schedule.personnelId': dp, status: 'Delivered',
\* deliveryTime: {...} }).  DeliveryItem has no path schedule.personnelId:
\* under strictQuery the condition is dropped from the filter, otherwise
\* it is sent to the store and matches no document.
Deliveries(items, dp, month, year, strictQuery) ==
  SelectSeq(items, LAMBDA it :
     /\ strictQuery
     /\ it.status = "Delivered"
     /\ InPeriod(it.deliveryTime, month, year))

\* deliveries.reduce(...): quantity * price * (commissionRate / 100)
RECURSIVE Commission(_, _)
Commission(items, rate) ==
  IF items = <<>> THEN 0
  ELSE (Head(items).quantity * PubPrice[Head(items).publicationId] * rate)
         \div 100
       + Commission(Tail(items), rate)

DelivererPaymentDoc(dp, month, year, amount, rate) ==
  [personnelId |-> dp, paymentMonth |-> month, paymentYear |-> year,
   amount |-> amount, commissionRate |-> rate, status |-> "Pending",
   paymentMethod |-> "Bank Transfer"]

\* The payments array the handler builds: one document for each active
\* deliverer of the manager's areas that has no payment for the period.
DuePayments(m, month, year, strictQuery) ==
  LET areaIds == {a \in Areas : m \in AreaManagers[a]}
      dps == SelectSeq([k \in 1..Len(personnel) |-> k], LAMBDA k :
                /\ personnel[k].areasAssigned \cap areaIds # {}
                /\ personnel[k].isActive)
      due == SelectSeq(dps, LAMBDA k :
                ~ExistingPayment(delivererPayments, k, month, year))
  IN [j \in 1..Len(due) |->
        DelivererPaymentDoc(due[j], month, year,
           Commission(Deliveries(deliveryItems, due[j], month, year,
                                 strictQuery),
                      personnel[due[j]].commissionRate),
           personnel[due[j]].commissionRate)]

ProcessDelivererPayments(m, month, year, strictQuery, fault) ==
  LET new == DuePayments(m, month, year, strictQuery)
      wrote == IF fault = "payment" /\ Len(new) > 0 THEN delivererPayments
               ELSE delivererPayments \o new
      code == IF fault = "commit" \/ (fault = "payment" /\ Len(new) > 0)
              THEN 500 ELSE 201
  IN /\ Len(delivererPayments) + Len(new) <= MaxPayrolls
     /\ delivererPayments' = Commit(delivererPayments, wrote,
                                    IF code = 201 THEN 200 ELSE code)
     /\ resp' = Response("processDelivererPayments", code, m, month, None)
     /\ UNCHANGED <<coreStores, now, directoryStores, reminders, pauses,
                  payCalls, payrollCalls>>
     /\ UNCHANGED <<routes, routeAddresses, schedules, deliveryItems>>

(***************************************************************************)
(* processDelivererPayments request by request: the look-ups that build    *)
(* the payments array, then DelivererPayment.create and the commit.  The   *)
(* look-ups run outside the session and see what is committed; nothing     *)
(* in the schema makes (personnelId, paymentMonth, paymentYear) unique.    *)
(***************************************************************************)
\* From startTransaction to the end of the for loop of request k.
BeginPayroll(k, m, month, year, strictQuery) ==
  /\ payrollCalls[k].stage = "idle"
  /\ payrollCalls' =
       [payrollCalls EXCEPT
          ![k] = [stage |-> "built", who |-> m, month |-> month,
                  new |-> DuePayments(m, month, year, strictQuery)]]
  /\ UNCHANGED <<coreStores, now, resp, directoryStores, deliveryStores,
                 reminders, pauses, payCalls>>

\* DelivererPayment.create(payments, { session }) and commitTransaction of
\* request k: inserts of new documents do not conflict with each other.
CommitPayroll(k, fault) ==
  LET call == payrollCalls[k]
      wrote == IF fault = "payment" /\ Len(call.new) > 0
               THEN delivererPayments
               ELSE delivererPayments \o call.new
      code == IF fault = "commit" \/ (fault = "payment" /\ Len(call.new) > 0)
              THEN 500 ELSE 201
  IN /\ call.stage = "built"
     /\ delivererPayments' = Commit(delivererPayments, wrote,
                                    IF code = 201 THEN 200 ELSE code)
     /\ payrollCalls' = [payrollCalls EXCEPT
                           ![k] = [stage |-> "done", code |-> code,
                                   who |-> call.who]]
     /\ resp' = Response("processDelivererPayments", code, call.who,
                         call.month, None)
     /\ UNCHANGED <<coreStores, now, directoryStores, reminders, pauses,
                    payCalls>>
     /\ UNCHANGED <<routes, routeAddresses, schedules, deliveryItems>>

(***************************************************************************)
(* sendPaymentReminders (POST /payment-reminders).                         *)
(***************************************************************************)
\* notificationPreferences.email of the customers.
EmailOptIn == [c \in Customers |-> c = "c1"]

\* The cooldown, in days.
ReminderCooldown == 7

\* RecentReminder with no cooldown: only a reminder of today counts.
RecentReminderToday(rems, billId, sameTime) ==
  \E k \in 1..Len(rems) :
     rems[k].billId = billId /\ rems[k].reminderDate >= now

\* PaymentReminder.findOne({ billId, reminderDate: { $gte: now - 7 days } }).
\* sameTime: a reminder dated exactly 7 days ago was created at this time
\* of day or later.
RecentReminder(rems, billId, sameTime) ==
  \E k \in 1..Len(rems) :
     /\ rems[k].billId = billId
     /\ \/ rems[k].reminderDate > now - ReminderCooldown
        \/ rems[k].reminderDate = now - ReminderCooldown /\ sameTime

\* OverdueBillIds without the status condition.
OverdueBillIdsAnyStatus(bls, areaIds) ==
  SelectSeq([k \in 1..Len(bls) |-> k], LAMBDA k :
     bls[k].areaId \in areaIds /\ DayOf(bls[k].dueDate) <= now)

\* Bill.find({ areaId: {$in}, status: {$in}, dueDate: {$lt: new Date()} }):
\* the dueDate is a midnight and the call happens later in its day.
OverdueBillIds(bls, areaIds) ==
  SelectSeq([k \in 1..Len(bls) |-> k], LAMBDA k :
     /\ bls[k].areaId \in areaIds
     /\ bls[k].status \in {"Unpaid", "Partially Paid"}
     /\ DayOf(bls[k].dueDate) <= now)

ReminderDoc(bls, k) ==
  [billId |-> k, userId |-> bls[k].userId, reminderDate |-> now,
   reminderType |-> "First Notice", status |-> "Pending",
   deliveryMethod |-> IF EmailOptIn[bls[k].userId] THEN "Email" ELSE "Print"]

\* PaymentReminder.create(reminders) runs without a transaction and saves
\* the documents one after another: failAt is the position of the document
\* the store rejects (0: none).
SendPaymentReminders(m, sameTime, failAt) ==
  LET areaIds == {a \in Areas : m \in AreaManagers[a]}
      overdue == OverdueBillIds(bills, areaIds)
      due == SelectSeq(overdue, LAMBDA k :
                ~RecentReminder(reminders, k, sameTime))
      new == [j \in 1..Len(due) |-> ReminderDoc(bills, due[j])]
      failed == failAt \in 1..Len(new)
  IN /\ Len(reminders) + Len(new) <= MaxReminders
     /\ reminders' = IF failed THEN reminders \o SubSeq(new, 1, failAt - 1)
                     ELSE reminders \o new
     /\ resp' = Response("sendPaymentReminders",
                         IF failed THEN 500 ELSE 201, m, NoId, None)
     /\ UNCHANGED <<coreStores, now, directoryStores, deliveryStores, pauses,
                  payCalls, payrollCalls>>

(***************************************************************************)
(* Days pass between requests, up to the given horizon.                    *)
(***************************************************************************)
Elapse(horizon) ==
  /\ now < horizon
  /\ now' = now + 1
  /\ resp' = Response("tick", 0, None, NoId, None)
  /\ UNCHANGED <<coreStores, otherStores>>

(***************************************************************************)
(* Time passes between requests.                                           *)
(***************************************************************************)
Tick ==
  /\ now < MaxTime
  /\ now' = now + 1
  /\ resp' = Response("tick", 0, None, NoId, None)
  /\ UNCHANGED <<subscriptions, requests, bills, billItems, payments>>
  /\ UNCHANGED otherStores

(***************************************************************************)
(* The service started on an empty store.                                  *)
(***************************************************************************)
Init ==
  /\ subscriptions = <<>>
  /\ requests = <<>>
  /\ bills = <<>>
  /\ billItems = <<>>
  /\ payments = <<>>
  /\ InitOtherStores
  /\ now = 0
  /\ resp = NoResp

\* Request bodies of POST /subscriptions: the well-formed bodies for
\* publication p1 (carried by both areas) at every address, and the bodies
\* with one field missing or invalid.  Subscriptions to p2 are covered by
\* StoredSubscriptions.
CreateBodies ==
  LET ok == [p : {"p1"}, q : {MaxQty}, d : Addresses, pl : {"Door"}]
      oneBad == {[p |-> None, q |-> 1, d |-> "d1", pl |-> "Door"],
                 [p |-> "p1", q |-> 0, d |-> "d1", pl |-> "Door"],
                 [p |-> "p1", q |-> 1, d |-> "d1", pl |-> None]}
  IN ok \cup oneBad

\* Request bodies of PUT /subscriptions/:id (no field is validated).
UpdateBodies == [q : {NoQty, MaxQty}, d : {None, "d2"}]

\* Request bodies of POST /payments: the amount is not validated.
PayAmounts == {-30, 0, 30, 200}
MethodInputs == {"Cash", "Barter"}
PaymentFaults == {None, "payment", "bill", "activity"}
BillFaults == {None, "bill", "item", "commit"}

\* The write of a handler that the store rejects, if any.
StoreFaults == {None, "sub", "req", "commit"}

Next ==
  \/ \E c \in Customers, b \in CreateBodies, fault \in {None, "sub", "req"} :
        CreateSubscription(c, b.p, b.q, b.d, b.pl, fault)
  \/ \E c \in Customers, id \in 1..MaxSubs, b \in UpdateBodies,
        fault \in {None, "req"} :
        UpdateSubscription(c, id, b.q, b.d, fault)
  \/ \E c \in Customers, id \in 1..MaxSubs, fault \in {None, "req"} :
        CancelSubscription(c, id, fault)
  \/ \E c \in Customers, id \in 1..MaxSubs : RequestPause(c, id, None)
  \/ \E m \in Managers, id \in 1..MaxReqs, status \in {"Approved", "Rejected"},
        comments \in CommentInputs, fault \in {None, "req"} :
        HandleSubscriptionRequest(m, id, status, comments, fault)
  \/ \E m \in Managers, month \in BillMonths, year \in BillYears,
        fault \in {None, "commit"} :
        GenerateBills(m, month, year, fault)
  \/ \E c \in Customers, billId \in 1..MaxBills :
        MakePayment(c, billId, 30, "Cash", None)
  \/ Tick

Spec == Init /\ [][Next]_vars

(***************************************************************************)
(* handleSubscriptionRequest over a populated store: one customer          *)
(* subscription, a second customer's subscription next to it, and one      *)
(* Pending change request of any type the schema allows.  The request may  *)
(* reference a subscription that is not stored, and a New request may      *)
(* carry no subscription or no address (both are optional in the schema).  *)
(***************************************************************************)
\* The subscriptions of customer c1 that the handlers can have produced.
StoredSubscriptions ==
  {[userId |-> "c1", publicationId |-> p, quantity |-> 1,
    startDate |-> 0, endDate |-> st[2], status |-> st[1],
    addressId |-> d, areaId |-> AddressDoc[d].areaId, placement |-> "Door"] :
     p \in Publications, d \in {"d1", "d2"},
     st \in {<<"Active", NoDate>>, <<"Paused", NoDate>>,
             <<"Cancelled", EffectiveDelay>>}}

\* The subscription of customer c2 stored next to it.
OtherSubscription ==
  [userId |-> "c2", publicationId |-> "p1", quantity |-> 1,
   startDate |-> 0, endDate |-> NoDate, status |-> "Active",
   addressId |-> "d3", areaId |-> "a1", placement |-> "Door"]

\* The Pending requests that can be stored for subscription 1 (sub).
StoredRequests(sub) ==
  LET base == [userId |-> sub.userId, requestType |-> "New",
               subscriptionId |-> 1, publicationId |-> sub.publicationId,
               newQuantity |-> sub.quantity, newAddressId |-> sub.addressId,
               placement |-> sub.placement, status |-> "Pending",
               effectiveDate |-> EffectiveDelay + 1, comments |-> None,
               processedBy |-> None, processedDate |-> NoDate]
      news == {[base EXCEPT !.subscriptionId = s, !.newAddressId = d] :
                 s \in {1, NoId}, d \in {sub.addressId, None}}
              \cup {[base EXCEPT !.userId = OtherSubscription.userId,
                                 !.subscriptionId = 2,
                                 !.publicationId = "p1",
                                 !.newAddressId = None]}
      updates == {[base EXCEPT !.requestType = "Update",
                               !.subscriptionId = s,
                               !.publicationId = None,
                               !.newQuantity = q, !.newAddressId = d,
                               !.placement = pl] :
                    s \in {1, 3}, q \in {NoQty, MaxQty + 1},
                    d \in {None, "d1", "d2"}, pl \in {None, "Mailbox"}}
      cancels == {[base EXCEPT !.requestType = "Cancel",
                               !.subscriptionId = s,
                               !.publicationId = None,
                               !.newQuantity = NoQty, !.newAddressId = None,
                               !.placement = None] : s \in {1, 3}}
  IN news \cup updates \cup cancels

InitStore ==
  /\ \E sub \in StoredSubscriptions :
        /\ subscriptions = <<sub, OtherSubscription>>
        /\ \E rq \in StoredRequests(sub) : requests = <<rq>>
  /\ bills = <<>>
  /\ billItems = <<>>
  /\ payments = <<>>
  /\ InitOtherStores
  /\ now = 0
  /\ resp = NoResp

NextStore ==
  \E m \in Managers, id \in 1..MaxReqs, status \in DecisionInputs,
     comments \in CommentInputs, fault \in StoreFaults :
     HandleSubscriptionRequest(m, id, status, comments, fault)

SpecStore == InitStore /\ [][NextStore]_vars

(***************************************************************************)
(* Billing and payments over a populated store: two subscriptions of       *)
(* customer c1 and one of customer c2, in any of the statuses the handlers *)
(* leave behind, billed by the managers and paid by the customers.         *)
(***************************************************************************)
BilledSubscriptions ==
  {<<[userId |-> "c1", publicationId |-> "p1", quantity |-> 1,
      startDate |-> 0, endDate |-> st1[2], status |-> st1[1],
      addressId |-> d, areaId |-> AddressDoc[d].areaId, placement |-> "Door"],
     [userId |-> "c1", publicationId |-> "p2", quantity |-> 2,
      startDate |-> 0, endDate |-> NoDate, status |-> st2,
      addressId |-> "d1", areaId |-> "a1", placement |-> "Door"],
     [userId |-> "c2", publicationId |-> "p1", quantity |-> 1,
      startDate |-> 0, endDate |-> NoDate, status |-> st3,
      addressId |-> "d3", areaId |-> "a1", placement |-> "Door"]>> :
     d \in {"d1", "d2"},
     st1 \in {<<"Active", NoDate>>, <<"Cancelled", EffectiveDelay>>},
     st2 \in {"Active", "Paused"}, st3 \in {"Active", "Suspended"}}

InitBill ==
  /\ subscriptions \in BilledSubscriptions
  /\ requests = <<>>
  /\ bills = <<>>
  /\ billItems = <<>>
  /\ payments = <<>>
  /\ InitOtherStores
  /\ now = 0
  /\ resp = NoResp

\* Billing periods of the runs: a January, a leap February and a December.
BillPeriodMonths == {1, 2, 12}

NextBill ==
  \/ \E m \in Managers, month \in BillPeriodMonths, year \in BillYears,
        fault \in BillFaults :
        GenerateBills(m, month, year, fault)
  \/ \E c \in Customers, billId \in 1..MaxBills, amount \in PayAmounts,
        method \in MethodInputs, fault \in PaymentFaults :
        MakePayment(c, billId, amount, method, fault)

SpecBill == InitBill /\ [][NextBill]_vars

(***************************************************************************)
(* The managers' mutations of routes, schedules, deliverers and            *)
(* publications over a populated store of subscriptions.                   *)
(***************************************************************************)
\* req.body.areaId: an area, none, or the id of no area.
AreaInputs == Areas \cup {None, "a9"}

\* req.body.addressIds: none, stops without sequence numbers, stops with
\* some and with all sequence numbers supplied, and a stop outside the area.
RouteStops ==
  {<<>>,
   <<[addressId |-> "d1", sequenceNumber |-> NoSeq],
     [addressId |-> "d3", sequenceNumber |-> NoSeq]>>,
   <<[addressId |-> "d1", sequenceNumber |-> 2],
     [addressId |-> "d3", sequenceNumber |-> NoSeq]>>,
   <<[addressId |-> "d1", sequenceNumber |-> 2],
     [addressId |-> "d3", sequenceNumber |-> 1]>>,
   <<[addressId |-> "d2", sequenceNumber |-> 1],
     [addressId |-> "d1", sequenceNumber |-> NoSeq]>>}

\* Request bodies of POST /routes: the well-formed ones and, for each
\* field, one that is well-formed but for that field.
RouteBodies ==
  LET ok == [p : {1, 2}, n : {"north"}, a : Areas, c : {"Distance"},
             stops : RouteStops]
      oneBad == {[p |-> NoId, n |-> "north", a |-> "a1", c |-> "Distance",
                  stops |-> <<>>],
                 [p |-> 1, n |-> None, a |-> "a1", c |-> "Distance",
                  stops |-> <<>>],
                 [p |-> 1, n |-> "north", a |-> None, c |-> "Distance",
                  stops |-> <<>>],
                 [p |-> 1, n |-> "north", a |-> "a9", c |-> "Distance",
                  stops |-> <<>>],
                 [p |-> 1, n |-> "north", a |-> "a1", c |-> "Scenic",
                  stops |-> <<>>]}
  IN ok \cup oneBad

\* Request bodies of POST /schedules, likewise.
ScheduleBodies ==
  LET ok == [p : {1, 2}, d : {0}, a : Areas, r : 1..MaxRoutes]
      oneBad == {[p |-> NoId, d |-> 0, a |-> "a1", r |-> 1],
                 [p |-> 1, d |-> NoDate, a |-> "a1", r |-> 1],
                 [p |-> 1, d |-> 0, a |-> None, r |-> 1],
                 [p |-> 1, d |-> 0, a |-> "a9", r |-> 1],
                 [p |-> 1, d |-> 0, a |-> "a1", r |-> NoId]}
  IN ok \cup oneBad

\* Request bodies of POST /deliverers and POST /publications.
DelivererBodies ==
  {[e |-> "e1", named |-> TRUE, a |-> a] : a \in AreaInputs}
  \cup {[e |-> None, named |-> TRUE, a |-> "a1"],
        [e |-> "e1", named |-> FALSE, a |-> "a1"]}
PublicationBodies ==
  {[a |-> a, t |-> "Daily"] : a \in AreaInputs}
  \cup {[a |-> "a1", t |-> "Hourly"]}

\* The stored subscriptions: customer c1's first subscription in either
\* area, customer c2's Active or Suspended.
ManagedSubscriptions ==
  {subs \in BilledSubscriptions :
     subs[1].status = "Active" /\ subs[2].status = "Active"}

InitManage ==
  /\ subscriptions \in ManagedSubscriptions
  /\ requests = <<>>
  /\ bills = <<>>
  /\ billItems = <<>>
  /\ payments = <<>>
  /\ InitOtherStores
  /\ now = 0
  /\ resp = NoResp

NextManage ==
  \/ \E m \in Managers, b \in RouteBodies,
        fault \in {None, "route", "routeAddress"} :
        CreateRoute(m, b.p, b.n, b.a, b.c, b.stops, fault)
  \/ \E m \in Managers, b \in ScheduleBodies,
        fault \in {None, "schedule", "item", "commit"} :
        CreateSchedule(m, b.p, b.d, b.a, b.r, fault)
  \/ \E m \in Managers, b \in DelivererBodies,
        fault \in {None, "user", "personnel", "area"} :
        AddDeliverer(m, b.e, b.named, 10, b.a, fault)
  \/ \E m \in Managers, b \in PublicationBodies,
        fault \in {None, "publication", "area"} :
        AddPublication(m, b.a, b.t, 40, fault)

SpecManage == InitManage /\ [][NextManage]_vars

(***************************************************************************)
(* Deliveries and the deliverers' payroll over a populated store: two      *)
(* routes and one schedule on each, with the delivery items createSchedule *)
(* made for the Active subscriptions of the schedule's area.               *)
(***************************************************************************)
DeliverySubscriptions ==
  <<[userId |-> "c1", publicationId |-> "p1", quantity |-> 1,
     startDate |-> 0, endDate |-> NoDate, status |-> "Paused",
     addressId |-> "d1", areaId |-> "a1", placement |-> "Door"],
    [userId |-> "c2", publicationId |-> "p2", quantity |-> 2,
     startDate |-> 0, endDate |-> NoDate, status |-> "Active",
     addressId |-> "d3", areaId |-> "a1", placement |-> "Door"],
    [userId |-> "c1", publicationId |-> "p1", quantity |-> 1,
     startDate |-> 0, endDate |-> NoDate, status |-> "Active",
     addressId |-> "d2", areaId |-> "a2", placement |-> "Door"]>>

DeliveryRoutes ==
  <<[personnelId |-> 1, routeName |-> "north", areaId |-> "a1",
     optimizationCriteria |-> "Distance", isActive |-> TRUE],
    [personnelId |-> 2, routeName |-> "south", areaId |-> "a2",
     optimizationCriteria |-> "Distance", isActive |-> TRUE]>>

DeliverySchedules ==
  <<[personnelId |-> 1, date |-> 0, areaId |-> "a1", routeId |-> 1,
     status |-> "Pending"],
    [personnelId |-> 2, date |-> 0, areaId |-> "a2", routeId |-> 2,
     status |-> "Pending"]>>

SeedDeliveryItems ==
  <<DeliveryItemDoc(DeliverySubscriptions, 2, 1),
    DeliveryItemDoc(DeliverySubscriptions, 3, 2)>>

InitDeliveries ==
  /\ subscriptions = DeliverySubscriptions
  /\ requests = <<>>
  /\ bills = <<>>
  /\ billItems = <<>>
  /\ payments = <<>>
  /\ InitDirectory
  /\ routes = DeliveryRoutes
  /\ routeAddresses = <<>>
  /\ schedules = DeliverySchedules
  /\ deliveryItems = SeedDeliveryItems
  /\ delivererPayments = <<>>
  /\ reminders = <<>>
  /\ pauses = <<>>
  /\ payCalls = [k \in Calls |-> [stage |-> "idle"]]
  /\ payrollCalls = [k \in Calls |-> [stage |-> "idle"]]
  /\ now = 0
  /\ resp = NoResp

\* The payroll period requested: the month of day 0, which is its last day.
PayrollMonths == {1}
PayrollYears == {2025}

NextDeliveries ==
  \/ \E dp \in {NoId, 1, 2}, id \in 1..(Len(SeedDeliveryItems) + 1),
        status \in {"Delivered", "Failed", "Pending"}, late \in BOOLEAN,
        fault \in {None, "item"} :
        UpdateDeliveryStatus(dp, id, status, late, fault)
  \/ \E m \in Managers, month \in PayrollMonths, year \in PayrollYears,
        strictQuery \in BOOLEAN, fault \in {None, "payment", "commit"} :
        ProcessDelivererPayments(m, month, year, strictQuery, fault)
  \/ Elapse(DeliveryDays)

SpecDeliveries == InitDeliveries /\ [][NextDeliveries]_vars

(***************************************************************************)
(* Payment reminders over a populated store: a bill of customer c1 that is *)
(* past due and a bill of customer c2, in either area, past due or not     *)
(* yet due, as generateBills stored them; the customers pay, the managers  *)
(* send reminders, and days pass.                                          *)
(***************************************************************************)
RemindedSubscriptions ==
  {<<[userId |-> "c1", publicationId |-> "p1", quantity |-> 1,
      startDate |-> 0, endDate |-> NoDate, status |-> "Active",
      addressId |-> "d1", areaId |-> "a1", placement |-> "Door"],
     [userId |-> "c2", publicationId |-> "p1", quantity |-> 1,
      startDate |-> 0, endDate |-> NoDate, status |-> "Active",
      addressId |-> d, areaId |-> AddressDoc[d].areaId,
      placement |-> "Door"]>> : d \in {"d3", "d4"}}

InitRemind ==
  /\ subscriptions \in RemindedSubscriptions
  /\ requests = <<>>
  \* The second bill is due 15 January 2025 or 15 February 2025.
  /\ \E per \in {<<12, 2024>>, <<1, 2025>>} :
        /\ bills = <<BillDoc(subscriptions, <<1, 2>>, 1, 12, 2024),
                     BillDoc(subscriptions, <<1, 2>>, 2, per[1], per[2])>>
        /\ billItems = <<BillItemDoc(subscriptions, 1, 1, 12, 2024),
                         BillItemDoc(subscriptions, 2, 2, per[1], per[2])>>
  /\ payments = <<>>
  /\ InitOtherStores
  /\ now = 0
  /\ resp = NoResp

NextRemind ==
  \/ \E m \in Managers, sameTime \in BOOLEAN, failAt \in 0..MaxReminders :
        SendPaymentReminders(m, sameTime, failAt)
  \/ \E c \in Customers, billId \in 1..MaxBills, amount \in {30, 200} :
        MakePayment(c, billId, amount, "Cash", None)
  \/ Elapse(ReminderDays)

SpecRemind == InitRemind /\ [][NextRemind]_vars

(***************************************************************************)
(* The customers' handlers over a populated store: a subscription of       *)
(* customer c1 in any status a customer can leave or find it in, a         *)
(* subscription of customer c2, and one bill of each of them.              *)
(***************************************************************************)
\* The bills and items are those of the run for December 2024, when both
\* subscriptions were Active.
InitOwn ==
  /\ subscriptions \in
       {<<[userId |-> "c1", publicationId |-> "p1", quantity |-> 1,
           startDate |-> 0, endDate |-> st[2], status |-> st[1],
           addressId |-> "d1", areaId |-> "a1", placement |-> "Door"],
          [userId |-> "c2", publicationId |-> "p1", quantity |-> 1,
           startDate |-> 0, endDate |-> NoDate, status |-> "Active",
           addressId |-> "d3", areaId |-> "a1", placement |-> "Door"]>> :
          st \in {<<"Active", NoDate>>, <<"Paused", NoDate>>,
                  <<"Cancelled", EffectiveDelay>>}}
  /\ requests = <<>>
  /\ bills = [i \in 1..2 |-> BillDoc(subscriptions, <<1, 2>>, i, 12, 2024)]
  /\ billItems = [i \in 1..2 |-> BillItemDoc(subscriptions, i, i, 12, 2024)]
  /\ payments = <<>>
  /\ InitOtherStores
  /\ now = 0
  /\ resp = NoResp

NextOwn ==
  \/ \E c \in Customers, id \in 1..(MaxSubs + 2), b \in UpdateBodies,
        fault \in {None, "req"} :
        UpdateSubscription(c, id, b.q, b.d, fault)
  \/ \E c \in Customers, id \in 1..(MaxSubs + 2), fault \in {None, "req"} :
        CancelSubscription(c, id, fault)
  \/ \E c \in Customers, id \in 1..(MaxSubs + 2),
        fault \in {None, "pause", "sub"} :
        RequestPause(c, id, fault)
  \/ \E c \in Customers, billId \in 1..(MaxBills + 1), amount \in PayAmounts,
        method \in MethodInputs, fault \in PaymentFaults :
        MakePayment(c, billId, amount, method, fault)

SpecOwn == InitOwn /\ [][NextOwn]_vars

(***************************************************************************)
(* Billing runs for every month of a leap year and of a common year, over  *)
(* an Active subscription in each area.                                    *)
(***************************************************************************)
InitPeriod ==
  /\ subscriptions \in
       {<<[userId |-> "c1", publicationId |-> "p1", quantity |-> q,
           startDate |-> 0, endDate |-> NoDate, status |-> "Active",
           addressId |-> "d1", areaId |-> "a1", placement |-> "Door"],
          [userId |-> "c1", publicationId |-> "p2", quantity |-> 1,
           startDate |-> 0, endDate |-> NoDate, status |-> "Active",
           addressId |-> "d2", areaId |-> "a2", placement |-> "Door"]>> :
          q \in {1, 2}}
  /\ requests = <<>>
  /\ bills = <<>>
  /\ billItems = <<>>
  /\ payments = <<>>
  /\ InitOtherStores
  /\ now = 0
  /\ resp = NoResp

NextPeriod ==
  \E m \in Managers, month \in 1..12, year \in {2023, 2024},
     fault \in {None, "commit"} :
     GenerateBills(m, month, year, fault)

SpecPeriod == InitPeriod /\ [][NextPeriod]_vars

(***************************************************************************)
(* createSchedule over a populated directory: an active deliverer of area  *)
(* a1, an active deliverer of both areas and a deactivated deliverer of    *)
(* area a1; a route of the first deliverer, a deactivated route of the     *)
(* same, and a route of the second in area a2.                             *)
(***************************************************************************)
InitSchedule ==
  /\ subscriptions \in ManagedSubscriptions
  /\ requests = <<>>
  /\ bills = <<>>
  /\ billItems = <<>>
  /\ payments = <<>>
  /\ users = <<>>
  /\ personnel = SeedPersonnel \o
                 <<[userId |-> "u3", areasAssigned |-> {"a1"},
                    isActive |-> FALSE, commissionRate |-> 10]>>
  /\ addedPublications = <<>>
  /\ areaLinks = NoLinks
  /\ routes =
       <<[personnelId |-> 1, routeName |-> "north", areaId |-> "a1",
          optimizationCriteria |-> "Distance", isActive |-> TRUE],
         [personnelId |-> 1, routeName |-> "old", areaId |-> "a1",
          optimizationCriteria |-> "Distance", isActive |-> FALSE],
         [personnelId |-> 2, routeName |-> "south", areaId |-> "a2",
          optimizationCriteria |-> "Distance", isActive |-> TRUE],
         [personnelId |-> 3, routeName |-> "east", areaId |-> "a1",
          optimizationCriteria |-> "Distance", isActive |-> TRUE]>>
  /\ routeAddresses = <<>>
  /\ schedules = <<>>
  /\ deliveryItems = <<>>
  /\ delivererPayments = <<>>
  /\ reminders = <<>>
  /\ pauses = <<>>
  /\ payCalls = [k \in Calls |-> [stage |-> "idle"]]
  /\ payrollCalls = [k \in Calls |-> [stage |-> "idle"]]
  /\ now = 0
  /\ resp = NoResp

\* req.body of POST /schedules: every combination of a stored, an unknown
\* and a missing personnelId and routeId with an area, and the bodies with
\* no date, no area and an unknown area.
NextSchedule ==
  \E m \in Managers,
     b \in [p : 0..(Len(personnel) + 1), d : {0}, a : Areas,
            r : 0..(Len(routes) + 1)]
           \cup {[p |-> 1, d |-> NoDate, a |-> "a1", r |-> 1],
                 [p |-> 1, d |-> 0, a |-> None, r |-> 1],
                 [p |-> 1, d |-> 0, a |-> "a9", r |-> 1]},
     fault \in {None, "schedule", "item", "commit"} :
     CreateSchedule(m, b.p, b.d, b.a, b.r, fault)

SpecSchedule == InitSchedule /\ [][NextSchedule]_vars

(***************************************************************************)
(* Two makePayment requests at once on a populated store: one bill of      *)
(* customer c1 for 50, untouched or after a payment of 10.                 *)
(***************************************************************************)
InitPayRace ==
  /\ subscriptions =
       <<[userId |-> "c1", publicationId |-> "p1", quantity |-> 1,
          startDate |-> 0, endDate |-> NoDate, status |-> "Active",
          addressId |-> "d1", areaId |-> "a1", placement |-> "Door"]>>
  /\ requests = <<>>
  /\ \/ /\ payments = <<>>
        /\ bills = <<BillDoc(subscriptions, <<1>>, 1, 12, 2024)>>
     \/ /\ payments = <<PaymentDoc("c1", 1, 10, "Cash")>>
        /\ bills = <<PaidBill(BillDoc(subscriptions, <<1>>, 1, 12, 2024),
                              10)>>
  /\ billItems = <<BillItemDoc(subscriptions, 1, 1, 12, 2024)>>
  /\ InitOtherStores
  /\ now = 0
  /\ resp = NoResp

NextPayRace ==
  \/ \E k \in Calls, c \in Customers, billId \in 1..MaxBills,
        amount \in {10, 40, 200} :
        BeginPayment(k, c, billId, amount, "Cash")
  \/ \E k \in Calls, fault \in {None, "payment"} : SavePayment(k, fault)
  \/ \E k \in Calls, fault \in {None, "bill", "activity"} : SaveBill(k, fault)

SpecPayRace == InitPayRace /\ [][NextPayRace]_vars

(***************************************************************************)
(* Two processDelivererPayments requests at once, over the populated       *)
(* delivery store, while the deliverers report their deliveries.           *)
(***************************************************************************)
NextPayrollRace ==
  \/ \E k \in Calls, m \in Managers, month \in PayrollMonths,
        year \in PayrollYears, strictQuery \in BOOLEAN :
        BeginPayroll(k, m, month, year, strictQuery)
  \/ \E k \in Calls, fault \in {None, "payment", "commit"} :
        CommitPayroll(k, fault)
  \/ \E dp \in {1, 2}, id \in 1..Len(SeedDeliveryItems) :
        UpdateDeliveryStatus(dp, id, "Delivered", FALSE, None)

SpecPayrollRace == InitDeliveries /\ [][NextPayrollRace]_vars

(***************************************************************************)
(* The deliverers' handlers over the populated delivery store: both        *)
(* deliverers and a user with no personnel record report on every item     *)
(* and on an unknown one.                                                  *)
(***************************************************************************)
\* req.user.deliveryPersonnel is a personnel id or null; req.body.status
\* is one of the statuses the handler accepts, or another.
NextItems ==
  \/ \E dp \in {NoId, 1, 2}, id \in 1..(Len(deliveryItems) + 1),
        status \in DeliveredStatuses \cup {"Pending", "Lost"},
        late \in BOOLEAN, fault \in {None, "item"} :
        UpdateDeliveryStatus(dp, id, status, late, fault)
  \/ \E dp \in {NoId, 1, 2}, id \in 1..(Len(deliveryItems) + 1),
        photo \in BOOLEAN, fault \in {None, "item"} :
        UploadDeliveryProof(dp, id, photo, fault)

SpecItems == InitDeliveries /\ [][NextItems]_vars

(***************************************************************************)
(* Properties of the change-request state machine.                         *)
(***************************************************************************)
\* The step is an invocation of handleSubscriptionRequest on request r.
Decided(r) == resp'.op = "decide" /\ resp'.id = r

\* The stored subscription a request refers to.
SubOf(rq) == subscriptions[rq.subscriptionId]

\* C1: a change request makes exactly one status transition: once it is
\* Approved or Rejected, no later invocation of handleSubscriptionRequest
\* on it changes its status or any subscription.
C1_SingleTransition ==
  [][\A r \in 1..Len(requests) :
       requests[r].status \in {"Approved", "Rejected"} =>
         /\ requests'[r].status = requests[r].status
         /\ Decided(r) => subscriptions' = subscriptions]_vars

\* C2: a subscription created by a New request is Active only if that
\* request is Approved.
C2_ActiveOnlyIfApproved ==
  \A r \in 1..Len(requests) :
    (/\ requests[r].requestType = "New"
     /\ HasSub(subscriptions, requests[r].subscriptionId)
     /\ SubOf(requests[r]).status = "Active")
    => requests[r].status = "Approved"

\* C3: Cancelled is terminal: a Cancelled subscription never becomes
\* Active again.
C3_CancelledTerminal ==
  [][\A s \in 1..Len(subscriptions) :
       subscriptions[s].status = "Cancelled" =>
         subscriptions'[s].status # "Active"]_vars

\* C4: approving a New request is atomic: on success the subscription is
\* Active with startDate = the request's effectiveDate and the request is
\* Approved with processedBy and processedDate set; on failure neither the
\* subscriptions nor the requests change.
C4_ApproveNewAtomic ==
  [][\A r \in 1..Len(requests) :
       (/\ Decided(r)
        /\ resp'.decision = "Approved"
        /\ requests[r].requestType = "New")
       => IF resp'.code = 200
          THEN /\ requests'[r].status = "Approved"
               /\ requests'[r].processedBy = resp'.who
               /\ requests'[r].processedDate = now
               /\ HasSub(subscriptions', requests'[r].subscriptionId)
               /\ subscriptions'[requests'[r].subscriptionId].status = "Active"
               /\ subscriptions'[requests'[r].subscriptionId].startDate
                    = requests[r].effectiveDate
          ELSE /\ subscriptions' = subscriptions
               /\ requests' = requests]_vars

\* A New request has been approved: it is Approved and processed, and its
\* subscription is Active from the request's effectiveDate.
C4_Witness ==
  /\ resp.op = "decide" /\ resp.code = 200 /\ resp.decision = "Approved"
  /\ HasReq(requests, resp.id)
  /\ requests[resp.id].requestType = "New"
  /\ requests[resp.id].status = "Approved"
  /\ requests[resp.id].processedBy = resp.who
  /\ HasSub(subscriptions, requests[resp.id].subscriptionId)
  /\ SubOf(requests[resp.id]).status = "Active"
  /\ SubOf(requests[resp.id]).startDate = requests[resp.id].effectiveDate

\* C5: after a Cancel request is Approved the subscription is Cancelled
\* with endDate = the request's effectiveDate, and no later generateBills
\* run emits a BillItem for that subscription.
C5_CancelledNeverBilled ==
  [][\A r \in 1..Len(requests) :
       LET sid == requests[r].subscriptionId
       IN /\ (/\ Decided(r)
              /\ resp'.code = 200
              /\ resp'.decision = "Approved"
              /\ requests[r].requestType = "Cancel"
              /\ HasSub(subscriptions, sid))
             => /\ subscriptions'[sid].status = "Cancelled"
                /\ subscriptions'[sid].endDate = requests[r].effectiveDate
          /\ (/\ requests[r].requestType = "Cancel"
              /\ requests[r].status = "Approved")
             => \A k \in (Len(billItems) + 1)..Len(billItems') :
                   billItems'[k].subscriptionId # sid]_vars

\* C6: a Rejected decision leaves every subscription unchanged, whatever
\* the request type, and changes only the request's status, processedBy,
\* processedDate and comments.
C6_RejectLeavesSubscriptions ==
  [][\A r \in 1..Len(requests) :
       (Decided(r) /\ resp'.decision = "Rejected")
       => /\ subscriptions' = subscriptions
          /\ Len(requests') = Len(requests)
          /\ \A k \in 1..Len(requests) : k # r => requests'[k] = requests[k]
          /\ requests'[r] =
               [requests[r] EXCEPT
                  !.status = requests'[r].status,
                  !.processedBy = requests'[r].processedBy,
                  !.processedDate = requests'[r].processedDate,
                  !.comments = requests'[r].comments]
          /\ resp'.code = 200 => requests'[r].status = "Rejected"]_vars

\* A Cancel request has been rejected and its subscription is still Active
\* with no endDate.
C6_Witness ==
  /\ resp.op = "decide" /\ resp.code = 200 /\ resp.decision = "Rejected"
  /\ HasReq(requests, resp.id)
  /\ requests[resp.id].requestType = "Cancel"
  /\ requests[resp.id].status = "Rejected"
  /\ HasSub(subscriptions, requests[resp.id].subscriptionId)
  /\ SubOf(requests[resp.id]).status = "Active"
  /\ SubOf(requests[resp.id]).endDate = NoDate

\* C7: approving an Update request sets the subscription's quantity,
\* addressId and delivery preferences to the requested ones, each where
\* supplied, and leaves its status, startDate and endDate unchanged.
C7_ApproveUpdate ==
  [][\A r \in 1..Len(requests) :
       (/\ Decided(r)
        /\ resp'.code = 200
        /\ resp'.decision = "Approved"
        /\ requests[r].requestType = "Update")
       => LET sid == requests[r].subscriptionId
              old == subscriptions[sid]
              new == subscriptions'[sid]
          IN /\ HasSub(subscriptions, sid)
             /\ Len(subscriptions') = Len(subscriptions)
             /\ requests[r].newQuantity # NoQty
                  => new.quantity = requests[r].newQuantity
             /\ requests[r].newAddressId # None
                  => new.addressId = requests[r].newAddressId
             /\ requests[r].placement # None
                  => new.placement = requests[r].placement
             /\ new.status = old.status
             /\ new.startDate = old.startDate
             /\ new.endDate = old.endDate
             /\ \A k \in 1..Len(subscriptions) :
                   k # sid => subscriptions'[k] = subscriptions[k]]_vars

\* An Update request carrying a quantity, an address and a placement has
\* been approved on an Active subscription, which now carries all three.
C7_Witness ==
  /\ resp.op = "decide" /\ resp.code = 200 /\ resp.decision = "Approved"
  /\ HasReq(requests, resp.id)
  /\ requests[resp.id].requestType = "Update"
  /\ requests[resp.id].newQuantity # NoQty
  /\ requests[resp.id].newAddressId # None
  /\ requests[resp.id].placement # None
  /\ SubOf(requests[resp.id]).status = "Active"
  /\ SubOf(requests[resp.id]).quantity = requests[resp.id].newQuantity
  /\ SubOf(requests[resp.id]).addressId = requests[resp.id].newAddressId
  /\ SubOf(requests[resp.id]).placement = requests[resp.id].placement
  /\ SubOf(requests[resp.id]).quantity # OtherSubscription.quantity

\* The step appended a Pending change request of the given type for
\* subscription sid.
Submitted(type, sid) ==
  /\ Len(requests') = Len(requests) + 1
  /\ requests'[Len(requests')].requestType = type
  /\ requests'[Len(requests')].status = "Pending"
  /\ requests'[Len(requests')].subscriptionId = sid

\* C8: for each request type, a valid customer submission with no store
\* failure leaves a stored Pending request of that type: createSubscription
\* with a well-formed body, updateSubscription on an owned Active
\* subscription, cancelSubscription on an owned non-cancelled one.
C8_SubmissionStoresRequest ==
  [][/\ \A c \in Customers, b \in CreateBodies :
          (/\ CreateSubscription(c, b.p, b.q, b.d, b.pl, None)
           /\ b.p \in Publications /\ b.q > 0 /\ b.pl # None
           /\ AddressDoc[b.d].userId = c /\ AddressDoc[b.d].isActive)
          => Submitted("New", Len(subscriptions) + 1)
     /\ \A c \in Customers, id \in 1..Len(subscriptions), b \in UpdateBodies :
          (/\ UpdateSubscription(c, id, b.q, b.d, None)
           /\ subscriptions[id].userId = c
           /\ subscriptions[id].status = "Active")
          => Submitted("Update", id)
     /\ \A c \in Customers, id \in 1..Len(subscriptions) :
          (/\ CancelSubscription(c, id, None)
           /\ subscriptions[id].userId = c
           /\ subscriptions[id].status # "Cancelled")
          => Submitted("Cancel", id)]_vars

\* The areas the claim resolves from a request: the subscription's area,
\* the new address's area and the areas carrying the publication.
ResolvedAreas(rq) ==
  (IF HasSub(subscriptions, rq.subscriptionId)
   THEN {SubOf(rq).areaId} ELSE {})
  \cup (IF rq.newAddressId \in Addresses
        THEN {AddressDoc[rq.newAddressId].areaId} ELSE {})
  \cup {a \in Areas : rq.publicationId \in AreaPublications[a]}

\* C9: handleSubscriptionRequest answers 403 Forbidden, and writes nothing,
\* whenever the acting manager manages none of the areas resolved from the
\* request.
C9_ForbiddenOutsideAreas ==
  [][\A r \in 1..Len(requests) :
       (/\ Decided(r)
        /\ \A a \in ResolvedAreas(requests[r]) \cap Areas :
              resp'.who \notin AreaManagers[a])
       => /\ resp'.code = 403
          /\ subscriptions' = subscriptions
          /\ requests' = requests]_vars

\* A manager was refused on a stored New request whose subscription and
\* address lie in an area with a manager.
C9_Witness ==
  /\ resp.op = "decide" /\ resp.code = 403
  /\ HasReq(requests, resp.id)
  /\ requests[resp.id].requestType = "New"
  /\ requests[resp.id].status = "Pending"
  /\ HasSub(subscriptions, requests[resp.id].subscriptionId)
  /\ AreaManagers[SubOf(requests[resp.id]).areaId] # {}

\* C10: an invocation of handleSubscriptionRequest that ends in a failure
\* leaves all subscriptions and change requests as they were; a Pending
\* request stays Pending.
C10_FailureWritesNothing ==
  [][(resp'.op = "decide" /\ resp'.code # 200)
       => /\ subscriptions' = subscriptions
          /\ requests' = requests]_vars

\* The approval of a stored Pending request failed with a store error and
\* the request is still Pending.
C10_Witness ==
  /\ resp.op = "decide" /\ resp.code = 500 /\ resp.decision = "Approved"
  /\ HasReq(requests, resp.id)
  /\ requests[resp.id].status = "Pending"
  /\ requests[resp.id].processedBy = None
  /\ HasSub(subscriptions, requests[resp.id].subscriptionId)

Billed == resp'.op = "generateBills"
Paying == resp'.op = "makePayment"

\* The bills and bill items a step added.
NewBillIds == (Len(bills) + 1)..Len(bills')
NewItemIds == (Len(billItems) + 1)..Len(billItems')

\* The sum of totalPrice over the items of bill billId.
RECURSIVE SumItems(_, _)
SumItems(items, billId) ==
  IF items = <<>> THEN 0
  ELSE (IF Head(items).billId = billId THEN Head(items).totalPrice ELSE 0)
       + SumItems(Tail(items), billId)

\* C12: in every reachable state no two Bills have the same customer, area,
\* billMonth and billYear.
C12_OneBillPerPeriod ==
  \A j, k \in 1..Len(bills) :
     (/\ bills[j].userId = bills[k].userId
      /\ bills[j].areaId = bills[k].areaId
      /\ bills[j].billMonth = bills[k].billMonth
      /\ bills[j].billYear = bills[k].billYear) => j = k

\* C13: every Bill a generateBills run stores has status Unpaid and
\* outstandingAmount = totalAmount = the sum of totalPrice over its
\* BillItems, and every BillItem it stores has totalPrice = quantity x
\* unitPrice.
C13_BillTotals ==
  [][Billed =>
       /\ \A k \in NewBillIds :
             /\ bills'[k].status = "Unpaid"
             /\ bills'[k].outstandingAmount = bills'[k].totalAmount
             /\ bills'[k].totalAmount = SumItems(billItems', k)
       /\ \A j \in NewItemIds :
             billItems'[j].totalPrice
               = billItems'[j].quantity * billItems'[j].unitPrice]_vars

\* A run has stored a bill made of several items, one of them for more
\* than one copy.
C13_Witness ==
  /\ resp.op = "generateBills" /\ resp.code = 201
  /\ \E k \in 1..Len(bills) :
        /\ bills[k].totalAmount = SumItems(billItems, k)
        /\ bills[k].outstandingAmount = bills[k].totalAmount
        /\ \E i, j \in 1..Len(billItems) :
              /\ i # j
              /\ billItems[i].billId = k /\ billItems[j].billId = k
              /\ billItems[i].quantity > 1

\* C14: a successful generateBills run stores exactly one Bill for each
\* (customer, area) pair having an Active subscription in the manager's
\* areas and for no other pair, exactly one BillItem for each such Active
\* subscription, attached to the bill of its own pair, and no BillItem for
\* any other subscription; a run with nothing to bill stores nothing.
C14_OneBillPerGroup ==
  [][(Billed /\ resp'.code \in {200, 201}) =>
       LET areaIds == {a \in Areas : resp'.who \in AreaManagers[a]}
           act == {i \in 1..Len(subscriptions) :
                     /\ subscriptions[i].status = "Active"
                     /\ subscriptions[i].areaId \in areaIds}
           pairs == {<<subscriptions[i].userId, subscriptions[i].areaId>> :
                       i \in act}
       IN /\ \A pr \in pairs :
                Cardinality({k \in NewBillIds :
                   <<bills'[k].userId, bills'[k].areaId>> = pr}) = 1
          /\ \A k \in NewBillIds :
                <<bills'[k].userId, bills'[k].areaId>> \in pairs
          /\ \A i \in act :
                /\ Cardinality({j \in NewItemIds :
                      billItems'[j].subscriptionId = i}) = 1
                /\ \A j \in NewItemIds :
                      billItems'[j].subscriptionId = i =>
                        /\ billItems'[j].billId \in NewBillIds
                        /\ bills'[billItems'[j].billId].userId
                             = subscriptions[i].userId
                        /\ bills'[billItems'[j].billId].areaId
                             = subscriptions[i].areaId
          /\ \A j \in NewItemIds : billItems'[j].subscriptionId \in act]_vars

\* A run of a manager has stored two bills, for two customers of the same
\* area, while a subscription that is not Active was left unbilled.
C14_Witness ==
  /\ resp.op = "generateBills" /\ resp.code = 201
  /\ Len(bills) = 2
  /\ bills[1].userId # bills[2].userId
  /\ bills[1].areaId = bills[2].areaId
  /\ \E i \in 1..Len(subscriptions) :
        /\ subscriptions[i].status # "Active"
        /\ \A j \in 1..Len(billItems) : billItems[j].subscriptionId # i

\* C15: a generateBills run that fails stores no Bill and no BillItem, and
\* after every step each stored BillItem references a stored Bill and each
\* stored Bill has at least one BillItem.
C15_BillingAtomic ==
  [][Billed =>
       /\ resp'.code # 201 => (bills' = bills /\ billItems' = billItems)
       /\ \A j \in 1..Len(billItems') :
             billItems'[j].billId \in 1..Len(bills')
       /\ \A k \in 1..Len(bills') :
             \E j \in 1..Len(billItems') : billItems'[j].billId = k]_vars

\* A run over Active subscriptions of the manager's areas failed and the
\* store holds no bill and no bill item.
C15_Witness ==
  /\ resp.op = "generateBills" /\ resp.code = 500
  /\ bills = <<>> /\ billItems = <<>>
  /\ \E i \in 1..Len(subscriptions) :
        /\ subscriptions[i].status = "Active"
        /\ resp.who \in AreaManagers[subscriptions[i].areaId]

\* C16: every stored Bill is due on the 15th of its own billing month and
\* year.
C16_DueOnFifteenth ==
  \A k \in 1..Len(bills) :
     bills[k].dueDate = [year |-> bills[k].billYear,
                         month |-> bills[k].billMonth, day |-> 15]

\* The payment a makePayment step stored, if it stored one.
Stored == Len(payments') = Len(payments) + 1
Paid == payments'[Len(payments')]

\* C17: a makePayment call that succeeds stores outstandingAmount =
\* max(0, o - a) on the paid bill, with status Paid if that is 0 and
\* Partially Paid otherwise; the balance is never negative.
C17_PaymentArithmetic ==
  [][(Paying /\ resp'.code = 201) =>
       /\ Stored
       /\ LET o == bills[Paid.billId].outstandingAmount
              new == bills'[Paid.billId].outstandingAmount
          IN /\ new = (IF o - Paid.amount > 0 THEN o - Paid.amount ELSE 0)
             /\ new >= 0
             /\ (bills'[Paid.billId].status = "Paid") <=> (new = 0)
             /\ new # 0 => bills'[Paid.billId].status = "Partially Paid"]_vars

\* An overpayment has been accepted: the bill is Paid with nothing
\* outstanding.
C17_Witness ==
  /\ resp.op = "makePayment" /\ resp.code = 201
  /\ payments # <<>>
  /\ payments[Len(payments)].amount
       > bills[payments[Len(payments)].billId].totalAmount
  /\ bills[payments[Len(payments)].billId].outstandingAmount = 0
  /\ bills[payments[Len(payments)].billId].status = "Paid"

\* C18: in every reachable state every Bill has
\* 0 <= outstandingAmount <= totalAmount.
C18_OutstandingInRange ==
  \A k \in 1..Len(bills) :
     /\ 0 <= bills[k].outstandingAmount
     /\ bills[k].outstandingAmount <= bills[k].totalAmount

\* C19: every stored Payment has amount > 0.
C19_PositiveAmount ==
  \A k \in 1..Len(payments) : payments[k].amount > 0

\* C20: every step that stores a Completed Payment also applies its amount
\* to the outstandingAmount of its bill.
C20_PaymentAtomic ==
  [][(Paying /\ Stored /\ Paid.status = "Completed") =>
       bills'[Paid.billId].outstandingAmount
         = (IF bills[Paid.billId].outstandingAmount - Paid.amount > 0
            THEN bills[Paid.billId].outstandingAmount - Paid.amount
            ELSE 0)]_vars

(***************************************************************************)
(* Properties of routes, schedules and the area guard.                     *)
(***************************************************************************)
\* The step is an invocation of the named handler.
Invoked(op) == resp'.op = op

\* C21: a createSchedule call answered 201 stores exactly one
\* DeliverySchedule, with status Pending, and exactly one DeliveryItem
\* (status Pending, quantity = the subscription's quantity, on the new
\* schedule) for each subscription Active in the schedule's area and none
\* for any other subscription; a call that fails stores neither a schedule
\* nor an item.
C21_ScheduleWithItems ==
  [][Invoked("createSchedule") =>
       IF resp'.code = 201
       THEN LET sid == Len(schedules) + 1
                newItems == (Len(deliveryItems) + 1)..Len(deliveryItems')
                act == {i \in 1..Len(subscriptions) :
                          /\ subscriptions[i].status = "Active"
                          /\ subscriptions[i].areaId = resp'.area}
            IN /\ Len(schedules') = sid
               /\ SubSeq(schedules', 1, Len(schedules)) = schedules
               /\ schedules'[sid].status = "Pending"
               /\ schedules'[sid].areaId = resp'.area
               /\ SubSeq(deliveryItems', 1, Len(deliveryItems)) = deliveryItems
               /\ \A i \in act :
                     Cardinality({j \in newItems :
                        deliveryItems'[j].subscriptionId = i}) = 1
               /\ \A j \in newItems :
                     /\ deliveryItems'[j].subscriptionId \in act
                     /\ deliveryItems'[j].scheduleId = sid
                     /\ deliveryItems'[j].status = "Pending"
                     /\ deliveryItems'[j].quantity
                          = subscriptions[deliveryItems'[j].subscriptionId].quantity
       ELSE schedules' = schedules /\ deliveryItems' = deliveryItems]_vars

\* A schedule has been created with an item for a subscription of two
\* copies, while a subscription outside the area or not Active got none.
C21_Witness ==
  /\ resp.op = "createSchedule" /\ resp.code = 201
  /\ \E j \in 1..Len(deliveryItems) :
        /\ deliveryItems[j].scheduleId = Len(schedules)
        /\ deliveryItems[j].quantity = 2
  /\ \E i \in 1..Len(subscriptions) :
        \A j \in 1..Len(deliveryItems) : deliveryItems[j].subscriptionId # i

\* C22: in every reachable state no two DeliverySchedules have the same
\* personnel and date.
C22_OneSchedulePerDay ==
  \A j, k \in 1..Len(schedules) :
     (/\ schedules[j].personnelId = schedules[k].personnelId
      /\ schedules[j].date = schedules[k].date) => j = k

\* C29: in every reachable state the sequenceNumbers of the RouteAddress
\* rows of a route are strictly increasing in stop order.
C29_SequenceIncreasing ==
  \A j, k \in 1..Len(routeAddresses) :
     (j < k /\ routeAddresses[j].routeId = routeAddresses[k].routeId)
       => routeAddresses[j].sequenceNumber < routeAddresses[k].sequenceNumber

\* C30: createSchedule, createRoute, addDeliverer and addPublication invoked
\* by a manager who is not a manager of the target area, or for no existing
\* area, answer with a failure and leave every collection unchanged.
C30_AreaGuardFailsClosed ==
  [][(/\ resp'.op \in {"createSchedule", "createRoute", "addDeliverer",
                       "addPublication"}
      /\ ~(resp'.area \in Areas /\ resp'.who \in AreaManagers[resp'.area]))
       => /\ resp'.code \in {400, 403, 500}
          /\ UNCHANGED <<coreStores, otherStores>>]_vars

\* A manager was refused a schedule for an area of another manager for
\* which a route exists, and no schedule is stored.
C30_Witness ==
  /\ resp.op = "createSchedule" /\ resp.code = 403
  /\ resp.area \in Areas
  /\ resp.who \notin AreaManagers[resp.area]
  /\ \E r \in 1..Len(routes) :
        routes[r].areaId = resp.area /\ routes[r].personnelId = resp.id
  /\ schedules = <<>> /\ deliveryItems = <<>>

(***************************************************************************)
(* Properties of deliveries and the deliverers' payroll.                   *)
(***************************************************************************)
\* C23: once a DeliveryItem is Delivered, Failed or Skipped, no later step
\* changes its status or its deliveryTime.
C23_ItemStatusTerminal ==
  [][\A i \in 1..Len(deliveryItems) :
       deliveryItems[i].status \in DeliveredStatuses
         => /\ deliveryItems'[i].status = deliveryItems[i].status
            /\ deliveryItems'[i].deliveryTime
                 = deliveryItems[i].deliveryTime]_vars

\* C24: a processDelivererPayments run leaves the stored DelivererPayments
\* as they are, adds none for a personnel who already has one for the
\* month and year, and afterwards there is at most one DelivererPayment
\* per (personnel, month, year).
C24_PayrollIdempotent ==
  [][Invoked("processDelivererPayments") =>
       /\ SubSeq(delivererPayments', 1, Len(delivererPayments))
            = delivererPayments
       /\ \A j, k \in 1..Len(delivererPayments') :
             (/\ delivererPayments'[j].personnelId
                   = delivererPayments'[k].personnelId
              /\ delivererPayments'[j].paymentMonth
                   = delivererPayments'[k].paymentMonth
              /\ delivererPayments'[j].paymentYear
                   = delivererPayments'[k].paymentYear) => j = k]_vars

\* A run of the manager of both deliverers has paid the first deliverer
\* after the second one had been paid for the same month by an earlier
\* run: the second was skipped.
C24_Witness ==
  /\ resp.op = "processDelivererPayments" /\ resp.code = 201
  /\ Len(delivererPayments) = 2
  /\ delivererPayments[1].personnelId = 2
  /\ delivererPayments[2].personnelId = 1
  /\ delivererPayments[1].paymentMonth = delivererPayments[2].paymentMonth
  /\ delivererPayments[1].paymentYear = delivererPayments[2].paymentYear

\* The commission the claim defines for personnel dp: over the Delivered
\* items of dp's schedules with a deliveryTime from the first through the
\* last day of the month.
RECURSIVE ExpectedCommission(_, _, _, _)
ExpectedCommission(items, dp, month, year) ==
  IF items = <<>> THEN 0
  ELSE (IF /\ schedules[Head(items).scheduleId].personnelId = dp
           /\ Head(items).status = "Delivered"
           /\ Head(items).deliveryTime.day # NoDate
           /\ Head(items).deliveryTime.day >= DayOf([year |-> year,
                                                     month |-> month,
                                                     day |-> 1])
           /\ Head(items).deliveryTime.day
                <= DayOf([year |-> year, month |-> month,
                          day |-> DaysInMonth(year, month)])
        THEN (Head(items).quantity * PubPrice[Head(items).publicationId]
              * personnel[dp].commissionRate) \div 100
        ELSE 0)
       + ExpectedCommission(Tail(items), dp, month, year)

\* C25: every DelivererPayment a processDelivererPayments run creates has
\* status Pending and an amount equal to the sum of quantity x price x
\* commissionRate/100 over the Delivered items of that personnel's
\* schedules delivered from the first through the last day of the month.
C25_CommissionAmount ==
  [][Invoked("processDelivererPayments") =>
       \A k \in (Len(delivererPayments) + 1)..Len(delivererPayments') :
          /\ delivererPayments'[k].status = "Pending"
          /\ delivererPayments'[k].amount
               = ExpectedCommission(deliveryItems,
                                    delivererPayments'[k].personnelId,
                                    delivererPayments'[k].paymentMonth,
                                    delivererPayments'[k].paymentYear)]_vars

(***************************************************************************)
(* Properties of payment reminders.                                        *)
(***************************************************************************)
\* C26: in every reachable state any two PaymentReminders of the same bill
\* are dated at least 7 days apart.
C26_ReminderThrottle ==
  \A j, k \in 1..Len(reminders) :
     (j < k /\ reminders[j].billId = reminders[k].billId)
       => reminders[k].reminderDate - reminders[j].reminderDate >= 7

\* A bill has received a second reminder, after the cooldown.
C26_Witness ==
  \E j, k \in 1..Len(reminders) :
     /\ j < k
     /\ reminders[j].billId = reminders[k].billId
     /\ reminders[k].reminderDate > reminders[j].reminderDate

\* C27: every reminder a sendPaymentReminders call creates is for a bill
\* that at the time of the call is in one of the caller's areas, Unpaid or
\* Partially Paid and past due; its deliveryMethod is Email if the
\* customer's email preference is on and Print otherwise; a call that
\* succeeds creates exactly one reminder for each such bill that has no
\* reminder in the last 7 days, and none for a bill reminded since.
C27_ReminderSelection ==
  [][Invoked("sendPaymentReminders") =>
       LET new == (Len(reminders) + 1)..Len(reminders')
           eligible == {b \in 1..Len(bills) :
                          /\ resp'.who \in AreaManagers[bills[b].areaId]
                          /\ bills[b].status \in {"Unpaid", "Partially Paid"}
                          /\ DayOf(bills[b].dueDate) <= now}
       IN /\ SubSeq(reminders', 1, Len(reminders)) = reminders
          /\ \A k \in new :
                /\ reminders'[k].billId \in eligible
                /\ reminders'[k].userId = bills[reminders'[k].billId].userId
                /\ reminders'[k].deliveryMethod
                     = (IF EmailOptIn[reminders'[k].userId]
                        THEN "Email" ELSE "Print")
          /\ \A b \in eligible :
                /\ Cardinality({k \in new : reminders'[k].billId = b}) <= 1
                /\ (\E k \in 1..Len(reminders) :
                       /\ reminders[k].billId = b
                       /\ reminders[k].reminderDate > now - 7)
                     => \A k \in new : reminders'[k].billId # b
                /\ (/\ resp'.code = 201
                    /\ \A k \in 1..Len(reminders) :
                          reminders[k].billId = b
                            => reminders[k].reminderDate < now - 7)
                     => \E k \in new : reminders'[k].billId = b]_vars

\* A call has created a Print reminder while the other bill of the area,
\* which is Paid, has none.
C27_Witness ==
  /\ resp.op = "sendPaymentReminders" /\ resp.code = 201
  /\ \E k \in 1..Len(reminders) :
        /\ reminders[k].deliveryMethod = "Print"
        /\ reminders[k].reminderDate = now
  /\ \E b \in 1..Len(bills) :
        /\ bills[b].status = "Paid"
        /\ resp.who \in AreaManagers[bills[b].areaId]
        /\ \A k \in 1..Len(reminders) : reminders[k].billId # b

C31_OwnRecordsOnly ==
  [][/\ Invoked("makePayment")
          => \A c \in Customers, amount \in PayAmounts,
                method \in MethodInputs, fault \in PaymentFaults :
                (/\ resp'.id \in 1..Len(bills)
                 /\ bills[resp'.id].userId # c
                 /\ MakePayment(c, resp'.id, amount, method, fault))
                => (resp'.code = 404 /\ UNCHANGED <<bills, payments>>)
     /\ \A c \in Customers :
          (/\ HasSub(subscriptions, resp'.id)
           /\ subscriptions[resp'.id].userId # c
           /\ \/ \E fault \in {None, "req"} :
                   CancelSubscription(c, resp'.id, fault)
              \/ \E b \in UpdateBodies, fault \in {None, "req"} :
                   UpdateSubscription(c, resp'.id, b.q, b.d, fault)
              \/ \E fault \in {None, "pause", "sub"} :
                   RequestPause(c, resp'.id, fault))
          => (resp'.code = 404
              /\ UNCHANGED <<subscriptions, requests, pauses>>)]_vars

\* A customer's payment on another customer's bill was answered 404.
C31_Witness ==
  /\ resp.op = "makePayment" /\ resp.code = 404
  /\ resp.id \in 1..Len(bills)
  /\ bills[resp.id].userId # resp.who
  /\ resp.who \in Customers

\* C40: cancelSubscription and updateSubscription leave every subscription
\* as it was and at most append one Pending change request for the
\* subscription they were invoked on; cancelSubscription on a Cancelled
\* subscription of the caller answers 400 and stores no request.
C40_SubmissionsLeaveSubscription ==
  [][(Invoked("cancelSubscription") \/ Invoked("updateSubscription"))
       => /\ subscriptions' = subscriptions
          /\ \/ requests' = requests
             \/ /\ requests' = Append(requests, requests'[Len(requests')])
                /\ requests'[Len(requests')].status = "Pending"
                /\ requests'[Len(requests')].subscriptionId = resp'.id
                /\ requests'[Len(requests')].processedBy = None
          /\ \A c \in Customers, fault \in {None, "req"} :
                (/\ HasSub(subscriptions, resp'.id)
                 /\ subscriptions[resp'.id].userId = c
                 /\ subscriptions[resp'.id].status = "Cancelled"
                 /\ CancelSubscription(c, resp'.id, fault))
                => (resp'.code = 400 /\ requests' = requests)]_vars

\* A cancellation was accepted: its Pending request is stored and the
\* subscription is still Active.
C40_Witness ==
  /\ resp.op = "cancelSubscription" /\ resp.code = 200
  /\ requests # <<>>
  /\ requests[Len(requests)].requestType = "Cancel"
  /\ requests[Len(requests)].status = "Pending"
  /\ requests[Len(requests)].subscriptionId = resp.id
  /\ subscriptions[resp.id].status = "Active"
  /\ subscriptions[resp.id].endDate = NoDate

(***************************************************************************)
(* Properties of a bill's amounts and status.                              *)
(***************************************************************************)
\* C32: in every reachable state a bill is Paid if and only if its
\* outstandingAmount is 0, Partially Paid only if
\* 0 < outstandingAmount < totalAmount, and Unpaid only if
\* outstandingAmount = totalAmount.
C32_StatusFromAmounts ==
  \A b \in 1..Len(bills) :
     /\ bills[b].status = "Paid" <=> bills[b].outstandingAmount = 0
     /\ bills[b].status = "Partially Paid"
          => (0 < bills[b].outstandingAmount
              /\ bills[b].outstandingAmount < bills[b].totalAmount)
     /\ bills[b].status = "Unpaid"
          => bills[b].outstandingAmount = bills[b].totalAmount

\* C39: no makePayment call increases a bill's outstandingAmount, and a
\* Paid bill stays Paid.
C39_OutstandingNeverIncreases ==
  [][Invoked("makePayment") =>
       \A b \in 1..Len(bills) :
          /\ bills'[b].outstandingAmount <= bills[b].outstandingAmount
          /\ bills[b].status = "Paid" => bills'[b].status = "Paid"]_vars

(***************************************************************************)
(* Properties of the delivery period of a bill item.                       *)
(***************************************************************************)
\* The number of days of a month of the calendar.
CalendarDays(year, month) ==
  IF month \in {1, 3, 5, 7, 8, 10, 12} THEN 31
  ELSE IF month \in {4, 6, 9, 11} THEN 30
  ELSE IF year = 2024 THEN 29 ELSE 28

\* C33: every BillItem of a bill for (month, year) has its deliveryPeriod
\* from the first to the last day of that calendar month.
C33_FullMonthPeriod ==
  \A k \in 1..Len(billItems) :
     LET bill == bills[billItems[k].billId]
     IN /\ billItems[k].from
            = [year |-> bill.billYear, month |-> bill.billMonth, day |-> 1]
        /\ billItems[k].to
            = [year |-> bill.billYear, month |-> bill.billMonth,
               day |-> CalendarDays(bill.billYear, bill.billMonth)]

\* The items of a June 2024 run and of a December run are stored: the
\* first runs from 2024-06-01 to 2024-06-30.
C33_Witness ==
  /\ \E k \in 1..Len(billItems) :
        /\ bills[billItems[k].billId].billMonth = 6
        /\ bills[billItems[k].billId].billYear = 2024
        /\ billItems[k].from = [year |-> 2024, month |-> 6, day |-> 1]
        /\ billItems[k].to = [year |-> 2024, month |-> 6, day |-> 30]
  /\ \E k \in 1..Len(billItems) :
        bills[billItems[k].billId].billMonth = 12

(***************************************************************************)
(* Properties of createSchedule's validation.                              *)
(***************************************************************************)
\* C34: a createSchedule call with a required field missing, with a
\* personnel that is not an active deliverer assigned to the area, or with
\* a route that is not an active route of that area and that personnel, is
\* rejected (400 or 403) and stores no schedule and no delivery item.
C34_ScheduleValidation ==
  [][Invoked("createSchedule") =>
       LET p == resp'.id
           a == resp'.area
       IN \/ /\ resp'.code \in {400, 403}
             /\ UNCHANGED <<schedules, deliveryItems>>
          \/ \A d \in {NoDate, 0}, r \in 0..(Len(routes) + 1) :
                ~(/\ \/ p = NoId \/ d = NoDate \/ a = None \/ r = NoId
                     \/ p \notin 1..Len(personnel)
                     \/ ~personnel[p].isActive
                     \/ a \notin personnel[p].areasAssigned
                     \/ r \notin 1..Len(routes)
                     \/ ~routes[r].isActive
                     \/ routes[r].areaId # a
                     \/ routes[r].personnelId # p
                  /\ \E fault \in {None, "schedule", "item", "commit"} :
                        CreateSchedule(resp'.who, p, d, a, r, fault))]_vars

\* A manager of the area was refused a schedule for the deactivated
\* deliverer of that area.
C34_Witness ==
  /\ resp.op = "createSchedule" /\ resp.code = 400
  /\ resp.area \in Areas /\ resp.who \in AreaManagers[resp.area]
  /\ resp.id \in 1..Len(personnel)
  /\ ~personnel[resp.id].isActive
  /\ resp.area \in personnel[resp.id].areasAssigned

(***************************************************************************)
(* Properties of the reach of a manager's decision.                        *)
(***************************************************************************)
\* C35: whenever handleSubscriptionRequest changes the status, quantity or
\* address of a stored subscription, the acting manager is a manager of
\* that subscription's area.
C35_DecideWithinArea ==
  [][Invoked("decide") =>
       \A i \in 1..Len(subscriptions) :
          (\/ subscriptions'[i].status # subscriptions[i].status
           \/ subscriptions'[i].quantity # subscriptions[i].quantity
           \/ subscriptions'[i].addressId # subscriptions[i].addressId)
          => resp'.who \in AreaManagers[subscriptions[i].areaId]]_vars

(***************************************************************************)
(* Properties of requests that run at the same time.                       *)
(***************************************************************************)
RECURSIVE PaidOn(_, _)
\* The sum of the stored payments on a bill.
PaidOn(pays, billId) ==
  IF pays = <<>> THEN 0
  ELSE (IF Head(pays).billId = billId THEN Head(pays).amount ELSE 0)
       + PaidOn(Tail(pays), billId)

\* C36: when two makePayment requests with positive amounts on the same
\* bill have both answered 201, in whatever order their steps ran, the
\* bill's outstandingAmount is what was outstanding before them less both
\* amounts, not below 0, and its status matches that amount.
C36_NoLostPayment ==
  (\A k \in Calls : /\ payCalls[k].stage = "done"
                    /\ payCalls[k].code = 201
                    /\ payCalls[k].billId = 1)
    => /\ bills[1].outstandingAmount
           = Max0(bills[1].totalAmount - PaidOn(payments, 1))
       /\ bills[1].status = PaidStatus(bills[1].outstandingAmount)
\* C37: in every reachable state, also when two processDelivererPayments
\* requests for the same month and year overlap, at most one
\* DelivererPayment is stored per (personnel, month, year).
C37_OnePaymentPerPeriod ==
  \A j, k \in 1..Len(delivererPayments) :
     (/\ delivererPayments[j].personnelId = delivererPayments[k].personnelId
      /\ delivererPayments[j].paymentMonth = delivererPayments[k].paymentMonth
      /\ delivererPayments[j].paymentYear = delivererPayments[k].paymentYear)
     => j = k

(***************************************************************************)
(* Properties of the deliverers' handlers.                                 *)
(***************************************************************************)
\* C38: updateDeliveryStatus with an accepted status, and
\* uploadDeliveryProof with a photo, answer 403 on an item whose schedule
\* is not assigned to the caller and 404 on an unknown item, and leave the
\* items as they were; updateDeliveryStatus with a status outside
\* {Delivered, Failed, Skipped} answers 400 and changes nothing; no call
\* sets an item back to Pending.
C38_OnlyAssignedPersonnel ==
  [][(Invoked("updateDeliveryStatus") \/ Invoked("uploadDeliveryProof")) =>
       LET id == resp'.id
           known == id \in 1..Len(deliveryItems)
           accepted == resp'.decision \in {"Delivered", "Failed", "Skipped"}
           \* The step is a call by dp: updateDeliveryStatus with the
           \* status of the response, or uploadDeliveryProof with a photo.
           called(dp) ==
             \/ /\ Invoked("updateDeliveryStatus")
                /\ \E late \in BOOLEAN, fault \in {None, "item"} :
                      UpdateDeliveryStatus(dp, id, resp'.decision, late, fault)
             \/ /\ Invoked("uploadDeliveryProof")
                /\ \E fault \in {None, "item"} :
                      UploadDeliveryProof(dp, id, TRUE, fault)
           answered(code) == resp'.code = code /\ UNCHANGED deliveryItems
           proper == Invoked("uploadDeliveryProof") \/ accepted
       IN /\ \A dp \in {NoId, 1, 2} :
                /\ \/ answered(403)
                   \/ ~(/\ proper /\ known
                        /\ schedules[deliveryItems[id].scheduleId].personnelId
                             # dp
                        /\ called(dp))
                /\ \/ answered(404)
                   \/ ~(proper /\ ~known /\ called(dp))
                /\ \/ answered(400)
                   \/ ~(/\ Invoked("updateDeliveryStatus") /\ ~accepted
                        /\ called(dp))
          /\ \A k \in 1..Len(deliveryItems) :
                deliveryItems'[k].status = "Pending"
                  => deliveryItems[k].status = "Pending"]_vars

\* A deliverer was refused on an item of the other deliverer's schedule
\* that the other deliverer had reported Delivered, with proof.
C38_Witness ==
  /\ resp.op \in {"updateDeliveryStatus", "uploadDeliveryProof"}
  /\ resp.code = 403
  /\ resp.id \in 1..Len(deliveryItems)
  /\ deliveryItems[resp.id].status = "Delivered"
  /\ deliveryItems[resp.id].photoProof # None

====
